---------------------------- MODULE Spec2Model ----------------------------
(***************************************************************************)
(* Model of the adaptive-learning-agent core: the diagnostic question      *)
(* bank and decision graph (assessment/questions.py), the answer           *)
(* evaluator (assessment/evaluator.py), the diagnostic assessment state    *)
(* machine (assessment/diagnostic.py), the session and learner state       *)
(* (state/session.py, state/learner.py, state/storage.py) and the tutor    *)
(* with its content generator (agent/tutor.py, agent/content_generator.py).*)
(*                                                                         *)
(* Python values are represented as follows.                               *)
(*   str that is lowered/stripped/searched : sequence of 1-char strings    *)
(*   str used only as a key or a token     : TLA+ string                   *)
(*   dict                                  : function with string domain   *)
(*   list                                  : sequence                      *)
(*   None                                  : the record None               *)
(*   Optional[str]                         : None or PyStr(s)              *)
(*   a raised exception                    : the record Raised(type)       *)
(***************************************************************************)
EXTENDS Integers, Sequences, FiniteSets, TLC

VARIABLES
    client,            \* AnswerEvaluator.client: None or the judge client
    results,           \* DiagnosticAssessment.results
    current_question,  \* DiagnosticAssessment.current_question
    last_call,         \* the last operation called, its arguments and, for
                       \* start, whether it found results and a question
    ret,               \* what the last operation returned (or raised)
    judge_calls,       \* client.messages.create calls made by the last operation
    trav_id,           \* graph traversal: the id the next call is made with
    trav_trace,        \* graph traversal: the calls made so far
    session,           \* the Session object (DynamicTutor.session), or None
    profile,           \* the LearnerProfile object (DynamicTutor.profile), or None
    storage,           \* Storage: the learner files, by learner id
    cache,             \* ContentGenerator.cache
    tutor,             \* DynamicTutor: its dynamic content fields
    script,            \* the roles a caller of record_exchange goes through
    calls_made         \* calls made so far by that caller or on the tutor

vars == << client, results, current_question, last_call, ret, judge_calls,
           trav_id, trav_trace, session, profile, storage, cache, tutor,
           script, calls_made >>

diagVars == << client, results, current_question >>
travVars == << trav_id, trav_trace >>
callerVars == << script, calls_made >>
tutorVars == << session, profile, storage, cache, tutor >>
appVars == << tutorVars, callerVars >>

-----------------------------------------------------------------------------
(* Python values *)

None == [NoneType |-> TRUE]

PyStr(s) == [str |-> s]

Raised(exc) == [raised |-> exc]

IsRaised(v) == DOMAIN v = {"raised"}

\* dict.get(key, default)
dict_get(d, key, default) == IF key \in DOMAIN d THEN d[key] ELSE default

NoCall == [op |-> "none"]

\* value is computed once and named in F: Bind(e, LAMBDA x : body) is
\* LET x == e IN body.
Bind(value, F(_)) == F(value)

-----------------------------------------------------------------------------
(* str operations used by the evaluator, on sequences of characters *)

UpperCase ==
  << "A","B","C","D","E","F","G","H","I","J","K","L","M",
     "N","O","P","Q","R","S","T","U","V","W","X","Y","Z" >>

LowerCase ==
  << "a","b","c","d","e","f","g","h","i","j","k","l","m",
     "n","o","p","q","r","s","t","u","v","w","x","y","z" >>

Whitespace == {" ", "\t", "\n", "\r"}

\* The lower-case letter of each upper-case letter.
lower_table == [i \in DOMAIN UpperCase |-> LowerCase[i]]

upper_index == [c \in {UpperCase[i] : i \in DOMAIN UpperCase} |->
                  CHOOSE i \in DOMAIN UpperCase : UpperCase[i] = c]

lower_char(c) ==
  IF c \in DOMAIN upper_index THEN lower_table[upper_index[c]] ELSE c

\* str.lower()
lower(s) == [i \in 1..Len(s) |-> lower_char(s[i])]

\* str.strip()
strip(s) ==
  LET keep == {i \in 1..Len(s) : s[i] \notin Whitespace}
  IN  IF keep = {} THEN << >>
      ELSE SubSeq(s, CHOOSE i \in keep : \A j \in keep : i <= j,
                     CHOOSE i \in keep : \A j \in keep : i >= j)

\* `sub in s` on two str
str_in(sub, s) ==
  \E i \in 0..(Len(s) - Len(sub)) : SubSeq(s, i + 1, i + Len(sub)) = sub

-----------------------------------------------------------------------------
(* assessment/questions.py: the question bank.  The "question" text of an  *)
(* entry is left out: nothing in the core reads it except to copy it.      *)

OPEN_ENDED == <<"o","p","e","n","_","e","n","d","e","d">>

DIAGNOSTIC_QUESTIONS ==
  <<
    [ id |-> "diag_001",
      level |-> "beginner",
      answer |-> <<"D","N","A">>,
      acceptable_answers |-> << <<"d","n","a">>,
          <<"d","e","o","x","y","r","i","b","o","n","u","c","l","e","i","c"," ","a","c","i","d">> >>,
      topic |-> "dna_basics",
      follow_up_if_wrong |-> "diag_001b" ],
    [ id |-> "diag_001b",
      level |-> "beginner",
      answer |-> OPEN_ENDED,
      acceptable_patterns |-> << <<"i","n","s","t","r","u","c","t","i","o","n">>,
          <<"c","o","d","e">>,
          <<"i","n","f","o","r","m","a","t","i","o","n">>,
          <<"g","e","n","e","s">>,
          <<"t","r","a","i","t","s">>,
          <<"h","e","r","e","d","i","t">>,
          <<"b","l","u","e","p","r","i","n","t">> >>,
      topic |-> "dna_basics",
      is_followup |-> TRUE ],
    [ id |-> "diag_002",
      level |-> "beginner",
      answer |-> <<"b","r","o","w","n">>,
      acceptable_answers |-> << <<"b","r","o","w","n">>,
          <<"b","r","o","w","n"," ","e","y","e","s">> >>,
      topic |-> "mendelian_inheritance",
      follow_up_if_wrong |-> "diag_002b" ],
    [ id |-> "diag_002b",
      level |-> "beginner",
      answer |-> OPEN_ENDED,
      acceptable_patterns |-> << <<"d","o","m","i","n","a","n","t"," ","s","h","o","w","s">>,
          <<"d","o","m","i","n","a","n","t"," ","w","i","n","s">>,
          <<"r","e","c","e","s","s","i","v","e"," ","h","i","d","d","e","n">>,
          <<"r","e","c","e","s","s","i","v","e"," ","n","e","e","d","s"," ","t","w","o">>,
          <<"m","a","s","k","s">> >>,
      topic |-> "mendelian_inheritance",
      is_followup |-> TRUE ],
    [ id |-> "diag_003",
      level |-> "intermediate",
      answer |-> <<"2","5","%">>,
      acceptable_answers |-> << <<"2","5","%">>,
          <<"2","5">>,
          <<"1","/","4">>,
          <<"o","n","e"," ","f","o","u","r","t","h">>,
          <<"o","n","e"," ","q","u","a","r","t","e","r">>,
          <<"2","5"," ","p","e","r","c","e","n","t">> >>,
      topic |-> "punnett_squares",
      follow_up_if_wrong |-> "diag_003b" ],
    [ id |-> "diag_003b",
      level |-> "intermediate",
      answer |-> OPEN_ENDED,
      acceptable_patterns |-> << <<"y","e","s">>,
          <<"l","e","a","r","n","e","d">>,
          <<"g","r","i","d">>,
          <<"s","q","u","a","r","e">>,
          <<"c","r","o","s","s">> >>,
      topic |-> "punnett_squares",
      is_followup |-> TRUE ],
    [ id |-> "diag_004",
      level |-> "intermediate",
      answer |-> <<"a","l","l","e","l","e","s">>,
      acceptable_answers |-> << <<"a","l","l","e","l","e">>,
          <<"a","l","l","e","l","e","s">> >>,
      topic |-> "mendelian_inheritance" ],
    [ id |-> "diag_005",
      level |-> "advanced",
      answer |-> <<"B","o","t","h"," ","m","u","s","t"," ","b","e"," ","h","e","t","e","r","o","z","y","g","o","u","s"," ","(","B","b",")">>,
      acceptable_answers |-> << <<"b","b">>,
          <<"h","e","t","e","r","o","z","y","g","o","u","s">>,
          <<"B","b">>,
          <<"b","o","t","h"," ","B","b">>,
          <<"b","o","t","h"," ","h","e","t","e","r","o","z","y","g","o","u","s">>,
          <<"c","a","r","r","i","e","r","s">> >>,
      topic |-> "punnett_squares" ]
  >>

\* The ids of the bank's questions.
BankIds == {DIAGNOSTIC_QUESTIONS[i].id : i \in DOMAIN DIAGNOSTIC_QUESTIONS}

\* A mutation of the graph: a wrong answer to diag_004 goes back to diag_003.
QUESTION_SEQUENCE_cyclic ==
     ("start"     :> [str |-> "diag_001", chars |-> <<"d","i","a","g","_","0","0","1">>])
  @@ ("diag_001"  :> [correct |-> "diag_002", wrong |-> "diag_001b"])
  @@ ("diag_001b" :> [next |-> "diag_002"])
  @@ ("diag_002"  :> [correct |-> "diag_003", wrong |-> "diag_002b"])
  @@ ("diag_002b" :> [next |-> "diag_003"])
  @@ ("diag_003"  :> [correct |-> "diag_005", wrong |-> "diag_003b"])
  @@ ("diag_003b" :> [next |-> "diag_004"])
  @@ ("diag_004"  :> [correct |-> "diag_005", wrong |-> "diag_003"])
  @@ ("diag_005"  :> [correct |-> "end", wrong |-> "end"])

\* The decision graph.  The value under "start" is a str, not a dict: it is
\* kept with its characters, which is what `"next" in` searches.
QUESTION_SEQUENCE ==
     ("start"     :> [str |-> "diag_001", chars |-> <<"d","i","a","g","_","0","0","1">>])
  @@ ("diag_001"  :> [correct |-> "diag_002", wrong |-> "diag_001b"])
  @@ ("diag_001b" :> [next |-> "diag_002"])
  @@ ("diag_002"  :> [correct |-> "diag_003", wrong |-> "diag_002b"])
  @@ ("diag_002b" :> [next |-> "diag_003"])
  @@ ("diag_003"  :> [correct |-> "diag_005", wrong |-> "diag_003b"])
  @@ ("diag_003b" :> [next |-> "diag_004"])
  @@ ("diag_004"  :> [correct |-> "diag_005", wrong |-> "end"])
  @@ ("diag_005"  :> [correct |-> "end", wrong |-> "end"])

\* Whether a value of QUESTION_SEQUENCE is a str.
is_str(v) == "str" \in DOMAIN v

\* The for loop of get_question from position i on.
RECURSIVE get_question_from(_, _)
get_question_from(i, question_id) ==
  IF i > Len(DIAGNOSTIC_QUESTIONS) THEN None
  ELSE IF DIAGNOSTIC_QUESTIONS[i].id = question_id THEN DIAGNOSTIC_QUESTIONS[i]
  ELSE get_question_from(i + 1, question_id)

get_question(question_id) == get_question_from(1, question_id)

get_first_question == get_question(QUESTION_SEQUENCE["start"].str)

\* A mutation of get_next_question: the correct and wrong targets exchanged.
get_next_question_swapped(current_id, was_correct) ==
  IF current_id \notin DOMAIN QUESTION_SEQUENCE THEN None
  ELSE
    LET next_mapping == QUESTION_SEQUENCE[current_id]
    IN  IF is_str(next_mapping) THEN Raised("AttributeError")
        ELSE
          LET next_id ==
                IF "next" \in DOMAIN next_mapping THEN next_mapping["next"]
                ELSE IF was_correct THEN dict_get(next_mapping, "wrong", "end")
                ELSE dict_get(next_mapping, "correct", "end")
          IN  IF next_id = "end" THEN None ELSE get_question(next_id)

\* get_next_question returns a question, None, or raises.  On a str value
\* `"next" in next_mapping` is a substring test; when it fails the code goes on
\* to next_mapping.get, which a str does not have (AttributeError), and when
\* it succeeds to next_mapping["next"], a str indexed by a str (TypeError).
get_next_question(current_id, was_correct) ==
  IF current_id \notin DOMAIN QUESTION_SEQUENCE THEN None
  ELSE
    LET next_mapping == QUESTION_SEQUENCE[current_id]
    IN  IF is_str(next_mapping)
        THEN IF str_in(<<"n","e","x","t">>, next_mapping.chars)
             THEN Raised("TypeError")
             ELSE Raised("AttributeError")
        ELSE
          LET next_id ==
                IF "next" \in DOMAIN next_mapping THEN next_mapping["next"]
                ELSE IF was_correct THEN dict_get(next_mapping, "correct", "end")
                ELSE dict_get(next_mapping, "wrong", "end")
          IN  IF next_id = "end" THEN None ELSE get_question(next_id)

-----------------------------------------------------------------------------
(* assessment/evaluator.py.  An operation that may call the judge returns   *)
(* [ret |-> its value, calls |-> the client.messages.create calls it made]. *)
(* `response` is what the judge answers if it is called: it raises, or it   *)
(* returns text with no {...} in it, text whose {...} json.loads rejects,   *)
(* or text whose {...} is a JSON object.                                    *)

JudgeClient == [client |-> "Anthropic"]

evaluate_simple(answer, expected, acceptable) ==
  LET answer_lower == strip(lower(answer))
      is_correct ==
        \/ answer_lower = lower(expected)
        \/ \E i \in DOMAIN acceptable : str_in(lower(acceptable[i]), answer_lower)
  IN  [correct |-> is_correct, partial |-> FALSE, feedback |-> None]

\* A mutation of evaluate_pattern: only exactly two matches count as correct.
evaluate_pattern_exactly_two(answer, patterns) ==
  LET answer_lower == lower(answer)
      matches == Cardinality({i \in DOMAIN patterns :
                                str_in(lower(patterns[i]), answer_lower)})
  IN  IF matches = 2
      THEN [correct |-> TRUE, partial |-> FALSE, understanding |-> "good"]
      ELSE IF matches >= 1
      THEN [correct |-> FALSE, partial |-> TRUE, understanding |-> "partial"]
      ELSE [correct |-> FALSE, partial |-> FALSE, understanding |-> "minimal"]

evaluate_pattern(answer, patterns) ==
  LET answer_lower == lower(answer)
      matches == Cardinality({i \in DOMAIN patterns :
                                str_in(lower(patterns[i]), answer_lower)})
  IN  IF matches >= 2
      THEN [correct |-> TRUE, partial |-> FALSE, understanding |-> "good"]
      ELSE IF matches >= 1
      THEN [correct |-> FALSE, partial |-> TRUE, understanding |-> "partial"]
      ELSE [correct |-> FALSE, partial |-> FALSE, understanding |-> "minimal"]

\* A mutation of evaluate_with_llm: no try/except around the call and the
\* parse, so the judge's failure and json.loads' failure propagate.
evaluate_with_llm_unguarded(cl, question, answer, expected, topic, response) ==
  IF cl = None
  THEN [ret |-> [correct |-> FALSE, partial |-> FALSE,
                 feedback |-> PyStr("Unable to evaluate")],
        calls |-> 0]
  ELSE [ret |->
          CASE response.kind = "raises" -> Raised("APIError")
            [] response.kind = "no_json" ->
                 [correct |-> FALSE, partial |-> FALSE,
                  feedback |-> PyStr("Unable to parse evaluation")]
            [] response.kind = "bad_json" -> Raised("JSONDecodeError")
            [] response.kind = "json" -> response.value,
        calls |-> 1]

\* The four outcomes: client.messages.create or the reading of its response
\* raises (caught by `except Exception`); re.search finds no {...}; json.loads
\* raises on the {...} found (caught likewise); json.loads returns the object.
\* The exception's text, which the feedback ends with, is left out.
evaluate_with_llm(cl, question, answer, expected, topic, response) ==
  IF cl = None
  THEN [ret |-> [correct |-> FALSE, partial |-> FALSE,
                 feedback |-> PyStr("Unable to evaluate")],
        calls |-> 0]
  ELSE [ret |->
          CASE response.kind = "raises" ->
                 [correct |-> FALSE, partial |-> FALSE,
                  feedback |-> PyStr("Evaluation error")]
            [] response.kind = "no_json" ->
                 [correct |-> FALSE, partial |-> FALSE,
                  feedback |-> PyStr("Unable to parse evaluation")]
            [] response.kind = "bad_json" ->
                 [correct |-> FALSE, partial |-> FALSE,
                  feedback |-> PyStr("Evaluation error")]
            [] response.kind = "json" -> response.value,
        calls |-> 1]

\* A mutation of evaluate: the judge is consulted on every closed question,
\* the simple match's success notwithstanding.
evaluate_always_judges(cl, question, answer, use_llm, response) ==
  IF dict_get(question, "answer", None) = OPEN_ENDED
  THEN LET patterns == dict_get(question, "acceptable_patterns", << >>)
           result == evaluate_pattern(answer, patterns)
       IN  [ret |-> [result EXCEPT !.correct = result.correct \/ result.partial],
            calls |-> 0]
  ELSE LET expected == dict_get(question, "answer", << >>)
           acceptable == dict_get(question, "acceptable_answers", << >>)
           simple_result == evaluate_simple(answer, expected, acceptable)
       IN  IF use_llm /\ cl # None
           THEN evaluate_with_llm(cl, question, answer, expected,
                                  dict_get(question, "topic", "genetics"),
                                  response)
           ELSE [ret |-> simple_result, calls |-> 0]

\* A mutation of evaluate: the pattern verdict of an open-ended question is
\* returned as it is, a partial one not counting as correct.
evaluate_unpromoted(cl, question, answer, use_llm, response) ==
  IF dict_get(question, "answer", None) = OPEN_ENDED
  THEN LET patterns == dict_get(question, "acceptable_patterns", << >>)
           result == evaluate_pattern(answer, patterns)
       IN  [ret |-> result, calls |-> 0]
  ELSE LET expected == dict_get(question, "answer", << >>)
           acceptable == dict_get(question, "acceptable_answers", << >>)
           simple_result == evaluate_simple(answer, expected, acceptable)
       IN  IF simple_result.correct
           THEN [ret |-> simple_result, calls |-> 0]
           ELSE IF use_llm /\ cl # None
           THEN evaluate_with_llm(cl, question, answer, expected,
                                  dict_get(question, "topic", "genetics"),
                                  response)
           ELSE [ret |-> simple_result, calls |-> 0]

evaluate(cl, question, answer, use_llm, response) ==
  IF dict_get(question, "answer", None) = OPEN_ENDED
  THEN LET patterns == dict_get(question, "acceptable_patterns", << >>)
           result == evaluate_pattern(answer, patterns)
       IN  [ret |-> [result EXCEPT !.correct = result.correct \/ result.partial],
            calls |-> 0]
  ELSE LET expected == dict_get(question, "answer", << >>)
           acceptable == dict_get(question, "acceptable_answers", << >>)
           simple_result == evaluate_simple(answer, expected, acceptable)
       IN  IF simple_result.correct
           THEN [ret |-> simple_result, calls |-> 0]
           ELSE IF use_llm /\ cl # None
           THEN evaluate_with_llm(cl, question, answer, expected,
                                  dict_get(question, "topic", "genetics"),
                                  response)
           ELSE [ret |-> simple_result, calls |-> 0]

-----------------------------------------------------------------------------
(* assessment/diagnostic.py: the pure methods, on a results list *)

\* Python truthiness of result.get(key) for the values the model stores.
truthy(result, key) == dict_get(result, key, FALSE)

\* The for loop of get_level from position i on, with the counters so far.
RECURSIVE get_level_loop(_, _, _, _)
get_level_loop(rs, i, level_scores, level_counts) ==
  IF i > Len(rs) THEN [scores |-> level_scores, counts |-> level_counts]
  ELSE LET level == dict_get(rs[i], "level", "beginner")
       IN  get_level_loop(rs, i + 1,
             IF truthy(rs[i], "correct")
             THEN [level_scores EXCEPT ![level] = @ + 1]
             ELSE level_scores,
             [level_counts EXCEPT ![level] = @ + 1])

max(a, b) == IF a >= b THEN a ELSE b

\* A mutation of the threshold: above one half instead of at least one half.
pct_above_half(score, count) == 2 * score > max(count, 1)

\* score / max(count, 1) >= 0.5, in integers
pct_at_least_half(score, count) == 2 * score >= max(count, 1)

get_level(rs) ==
  IF rs = << >> THEN "beginner"
  ELSE
    LET zero == [l \in {"beginner", "intermediate", "advanced"} |-> 0]
        t == get_level_loop(rs, 1, zero, zero)
        beginner_ok == pct_at_least_half(t.scores["beginner"], t.counts["beginner"])
        intermediate_ok ==
          pct_at_least_half(t.scores["intermediate"], t.counts["intermediate"])
        advanced_ok == pct_at_least_half(t.scores["advanced"], t.counts["advanced"])
    IN  IF advanced_ok /\ intermediate_ok THEN "advanced"
        ELSE IF intermediate_ok /\ beginner_ok THEN "intermediate"
        ELSE "beginner"

\* `x in lst`
list_in(x, lst) == \E i \in DOMAIN lst : lst[i] = x

\* A topic is truthy when it is present and not the empty string.
topic_of(result) == dict_get(result, "topic", "")

RECURSIVE get_knowledge_gaps_loop(_, _, _)
get_knowledge_gaps_loop(rs, i, gaps) ==
  IF i > Len(rs) THEN gaps
  ELSE get_knowledge_gaps_loop(rs, i + 1,
         IF /\ ~truthy(rs[i], "correct")
            /\ ~truthy(rs[i], "partial")
            /\ topic_of(rs[i]) # ""
            /\ ~list_in(topic_of(rs[i]), gaps)
         THEN Append(gaps, topic_of(rs[i]))
         ELSE gaps)

\* A mutation of get_knowledge_gaps: a partial answer counts as a gap.
RECURSIVE get_knowledge_gaps_partial_too_loop(_, _, _)
get_knowledge_gaps_partial_too_loop(rs, i, gaps) ==
  IF i > Len(rs) THEN gaps
  ELSE get_knowledge_gaps_partial_too_loop(rs, i + 1,
         IF /\ ~truthy(rs[i], "correct")
            /\ topic_of(rs[i]) # ""
            /\ ~list_in(topic_of(rs[i]), gaps)
         THEN Append(gaps, topic_of(rs[i]))
         ELSE gaps)

get_knowledge_gaps_partial_too(rs) == get_knowledge_gaps_partial_too_loop(rs, 1, << >>)

get_knowledge_gaps(rs) == get_knowledge_gaps_loop(rs, 1, << >>)

RECURSIVE get_strengths_loop(_, _, _)
get_strengths_loop(rs, i, strengths) ==
  IF i > Len(rs) THEN strengths
  ELSE get_strengths_loop(rs, i + 1,
         IF /\ truthy(rs[i], "correct")
            /\ topic_of(rs[i]) # ""
            /\ ~list_in(topic_of(rs[i]), strengths)
         THEN Append(strengths, topic_of(rs[i]))
         ELSE strengths)

get_strengths(rs) == get_strengths_loop(rs, 1, << >>)

-----------------------------------------------------------------------------
(* state/session.py.  The values that come from the clock or from uuid4    *)
(* (session_id, session_start, every "timestamp") are left out: they are   *)
(* stored and no decision reads them.                                      *)

\* The literal 20 of add_exchange.
HistoryCap == 20

min(a, b) == IF a <= b THEN a ELSE b

\* lst[-n:]
py_last(lst, n) ==
  IF n = 0 THEN lst ELSE SubSeq(lst, max(1, Len(lst) - n + 1), Len(lst))

\* lst[:n]
py_first(lst, n) == SubSeq(lst, 1, min(n, Len(lst)))

SessionState(learner_id) ==
  [ learner_id |-> learner_id,
    current_topic |-> None,
    current_subtopic |-> None,
    conversation_history |-> << >>,
    questions_asked |-> 0,
    problems_attempted |-> << >>,
    flow_state |-> "start",
    assessment_answers |-> << >> ]

\* A mutation of add_exchange: past the cap the newest entries are dropped.
add_exchange_keeps_oldest(state, role, content) ==
  LET appended == Append(state.conversation_history,
                         [role |-> role, content |-> content])
  IN  [state EXCEPT !.conversation_history =
         IF Len(appended) > HistoryCap
         THEN py_first(appended, HistoryCap) ELSE appended]

add_exchange(state, role, content) ==
  LET appended == Append(state.conversation_history,
                         [role |-> role, content |-> content])
  IN  [state EXCEPT !.conversation_history =
         IF Len(appended) > HistoryCap
         THEN py_last(appended, HistoryCap) ELSE appended]

add_problem_attempt(state, problem_id, answer, correct, feedback) ==
  [state EXCEPT !.problems_attempted =
     Append(@, [problem_id |-> problem_id, answer |-> answer,
                correct |-> correct, feedback |-> feedback])]

\* A mutation of add_assessment_answer: only the latest answer is kept.
add_assessment_answer_latest(state, question_id, answer, correct) ==
  [state EXCEPT !.assessment_answers =
     << [question_id |-> question_id, answer |-> answer,
         correct |-> correct] >>]

add_assessment_answer(state, question_id, answer, correct) ==
  [state EXCEPT !.assessment_answers =
     Append(@, [question_id |-> question_id, answer |-> answer,
                correct |-> correct])]

\* correct_problems / total_problems: the float is kept as the two integers
\* it is the quotient of.
Quotient(a, b) == [dividend |-> a, divisor |-> b]

\* A mutation of get_session_summary: every attempt counts as correct.
get_session_summary_all_correct(state) ==
  LET correct_problems == Len(state.problems_attempted)
      total_problems == Len(state.problems_attempted)
  IN  [ topic_covered |-> state.current_topic,
        questions_asked |-> state.questions_asked,
        problems_attempted |-> total_problems,
        problems_correct |-> correct_problems,
        accuracy |-> IF total_problems > 0
                     THEN Quotient(correct_problems, total_problems)
                     ELSE None ]

get_session_summary(state) ==
  LET correct_problems ==
        Cardinality({i \in DOMAIN state.problems_attempted :
                       state.problems_attempted[i].correct})
      total_problems == Len(state.problems_attempted)
  IN  [ topic_covered |-> state.current_topic,
        questions_asked |-> state.questions_asked,
        problems_attempted |-> total_problems,
        problems_correct |-> correct_problems,
        accuracy |-> IF total_problems > 0
                     THEN Quotient(correct_problems, total_problems)
                     ELSE None ]

get_recent_context(state, n) == py_last(state.conversation_history, n)

\* Session.__init__
Session(learner_id) == [state |-> SessionState(learner_id)]

start_assessment(sess) == [sess EXCEPT !.state.flow_state = "assessment"]

start_teaching(sess, topic) ==
  [sess EXCEPT !.state.flow_state = "teaching", !.state.current_topic = topic]

start_practice(sess) == [sess EXCEPT !.state.flow_state = "practice"]

start_review(sess) == [sess EXCEPT !.state.flow_state = "review"]

\* A mutation of record_exchange: every exchange counts as a question asked.
record_exchange_counts_all(sess, role, content) ==
  LET added == add_exchange(sess.state, role, content)
  IN  [state |-> [added EXCEPT !.questions_asked = @ + 1]]

record_exchange(sess, role, content) ==
  LET added == add_exchange(sess.state, role, content)
  IN  [state |-> IF role = "assistant"
                 THEN [added EXCEPT !.questions_asked = @ + 1]
                 ELSE added]

record_problem(sess, problem_id, answer, correct, feedback) ==
  [state |-> add_problem_attempt(sess.state, problem_id, answer, correct,
                                 feedback)]

get_summary(sess) == get_session_summary(sess.state)

-----------------------------------------------------------------------------
(* state/learner.py and state/storage.py.  created_at and updated_at are   *)
(* left out.                                                               *)

dict_set(d, key, value) ==
  [k \in DOMAIN d \cup {key} |-> IF k = key THEN value ELSE d[k]]

\* list.remove(x): the first occurrence goes.
list_remove(lst, x) ==
  LET at == CHOOSE i \in DOMAIN lst :
              lst[i] = x /\ \A j \in 1..(i - 1) : lst[j] # x
  IN  SubSeq(lst, 1, at - 1) \o SubSeq(lst, at + 1, Len(lst))

KnowledgeState ==
  [ topics_mastered |-> << >>,
    topics_in_progress |-> << >>,
    misconceptions |-> << >>,
    strengths |-> << >> ]

ProgressHistory ==
  [ assessment_results |-> << >>,
    quiz_scores |-> << >>,
    session_summaries |-> << >> ]

LearnerProfile(learner_id, name) ==
  [ learner_id |-> learner_id,
    name |-> name,
    current_level |-> "beginner",
    total_sessions |-> 0,
    knowledge |-> KnowledgeState,
    progress |-> ProgressHistory,
    last_topic |-> None,
    last_session_summary |-> None ]

to_dict(p) ==
  [ learner_id |-> p.learner_id,
    name |-> p.name,
    current_level |-> p.current_level,
    total_sessions |-> p.total_sessions,
    knowledge |-> p.knowledge,
    progress |-> p.progress,
    last_topic |-> p.last_topic,
    last_session_summary |-> p.last_session_summary ]

from_dict(data) ==
  [ learner_id |-> data.learner_id,
    name |-> data.name,
    current_level |-> dict_get(data, "current_level", "beginner"),
    total_sessions |-> dict_get(data, "total_sessions", 0),
    knowledge |-> dict_get(data, "knowledge", KnowledgeState),
    progress |-> dict_get(data, "progress", ProgressHistory),
    last_topic |-> dict_get(data, "last_topic", None),
    last_session_summary |-> dict_get(data, "last_session_summary", None) ]

\* A mutation of update_mastery: a negative score is stored as it is.
update_mastery_no_floor(p, topic_id, score) ==
  LET stored == [p EXCEPT !.knowledge.topics_mastered =
                   dict_set(@, topic_id, min(100, score))]
  IN  IF score >= 70 /\ list_in(topic_id, p.knowledge.topics_in_progress)
      THEN [stored EXCEPT !.knowledge.topics_in_progress =
              list_remove(@, topic_id)]
      ELSE stored

update_mastery(p, topic_id, score) ==
  LET stored == [p EXCEPT !.knowledge.topics_mastered =
                   dict_set(@, topic_id, min(100, max(0, score)))]
  IN  IF score >= 70 /\ list_in(topic_id, p.knowledge.topics_in_progress)
      THEN [stored EXCEPT !.knowledge.topics_in_progress =
              list_remove(@, topic_id)]
      ELSE stored

add_session_summary(p, summary) ==
  [p EXCEPT !.progress.session_summaries = Append(@, summary),
            !.last_session_summary = dict_get(summary, "summary", PyStr(""))]

\* Storage: the files of data_dir, as a dict from learner id to the dict
\* json.dump wrote.
storage_save_learner(files, learner_id, data) == dict_set(files, learner_id, data)

storage_load_learner(files, learner_id) == dict_get(files, learner_id, None)

storage_learner_exists(files, learner_id) == learner_id \in DOMAIN files

\* LearnerManager
create_learner(files, learner_id, name) ==
  LET created == LearnerProfile(learner_id, name)
  IN  [ret |-> created,
       storage |-> storage_save_learner(files, learner_id, to_dict(created))]

get_learner(files, learner_id) ==
  LET data == storage_load_learner(files, learner_id)
  IN  IF data = None THEN None ELSE from_dict(data)

save_learner(files, p) == storage_save_learner(files, p.learner_id, to_dict(p))

learner_exists(files, learner_id) == storage_learner_exists(files, learner_id)

-----------------------------------------------------------------------------
(* agent/content_generator.py.  A call of client.messages.create has one    *)
(* of these outcomes: it raises (the call stands outside every try block,   *)
(* the exception reaches the caller); its text cannot be read or parsed     *)
(* ("unparseable": the except branch runs); its text is JSON, of which      *)
(* "variant" names the payload.  The prompt and the texts of a payload that *)
(* are only shown to the learner are left out.  A cache key, an f-string    *)
(* in the code, is the tuple of the values it is formatted from.            *)

Generated(value, new_cache, calls) ==
  [ret |-> value, cache |-> new_cache, calls |-> calls, raised |-> FALSE]

Failed(exc, new_cache, calls) ==
  [ret |-> Raised(exc), cache |-> new_cache, calls |-> calls, raised |-> TRUE]

\* The first payload: two subtopics, "Basics" and "Uses".  The second: an
\* object without "subtopics".
overview_payload(variant, subject) ==
  IF variant = 1
  THEN [ subject |-> subject,
         description |-> "description",
         subtopics |->
           << [id |-> "subtopic_1", name |-> PyStr(<<"B","a","s","i","c","s">>),
               description |-> "description", order |-> 1],
              [id |-> "subtopic_2", name |-> PyStr(<<"U","s","e","s">>),
               description |-> "description", order |-> 2] >> ]
  ELSE [ subject |-> subject, description |-> "description" ]

overview_fallback(subject) ==
  [ subject |-> subject,
    description |-> "description",
    subtopics |->
      << [id |-> "basics",
          name |-> PyStr(<<"F","u","n","d","a","m","e","n","t","a","l","s">>),
          description |-> "description", order |-> 1],
         [id |-> "intermediate",
          name |-> PyStr(<<"K","e","y"," ","C","o","n","c","e","p","t","s">>),
          description |-> "description", order |-> 2],
         [id |-> "practice",
          name |-> PyStr(<<"A","p","p","l","i","c","a","t","i","o","n">>),
          description |-> "description", order |-> 3] >> ]

generate_topic_overview(c, subject, learner_level, r) ==
  LET cache_key == <<"overview", subject, learner_level>>
  IN  IF cache_key \in DOMAIN c THEN Generated(c[cache_key], c, 0)
      ELSE CASE r.kind = "raises" -> Failed("APIError", c, 1)
             [] r.kind = "unparseable" ->
                  Generated(overview_fallback(subject), c, 1)
             [] r.kind = "json" ->
                  LET result == overview_payload(r.variant, subject)
                  IN  Generated(result, dict_set(c, cache_key, result), 1)

\* The first payload: five questions, two beginner, two intermediate, one
\* advanced, each with the answer "4".  The second: an empty array.  The
\* third: three questions, one of each level.  The fourth: three questions,
\* the last of a level that is none of the three.
questions_payload(variant) ==
  CASE variant = 1 ->
         << [id |-> "q1", level |-> "beginner", answer |-> <<"4">>],
            [id |-> "q2", level |-> "beginner", answer |-> <<"4">>],
            [id |-> "q3", level |-> "intermediate", answer |-> <<"4">>],
            [id |-> "q4", level |-> "intermediate", answer |-> <<"4">>],
            [id |-> "q5", level |-> "advanced", answer |-> <<"4">>] >>
    [] variant = 3 ->
         << [id |-> "q1", level |-> "beginner", answer |-> <<"4">>],
            [id |-> "q2", level |-> "intermediate", answer |-> <<"4">>],
            [id |-> "q3", level |-> "advanced", answer |-> <<"4">>] >>
    [] variant = 4 ->
         << [id |-> "q1", level |-> "intermediate", answer |-> <<"4">>],
            [id |-> "q2", level |-> "advanced", answer |-> <<"4">>],
            [id |-> "q3", level |-> "expert", answer |-> <<"4">>] >>
    [] OTHER -> << >>

questions_fallback ==
  << [id |-> "q1", level |-> "beginner", answer |-> OPEN_ENDED],
     [id |-> "q2", level |-> "beginner", answer |-> OPEN_ENDED],
     [id |-> "q3", level |-> "intermediate", answer |-> OPEN_ENDED],
     [id |-> "q4", level |-> "intermediate", answer |-> OPEN_ENDED],
     [id |-> "q5", level |-> "advanced", answer |-> OPEN_ENDED] >>

generate_assessment_questions(c, subject, num_questions, r) ==
  LET cache_key == <<"assessment", subject>>
  IN  IF cache_key \in DOMAIN c THEN Generated(c[cache_key], c, 0)
      ELSE CASE r.kind = "raises" -> Failed("APIError", c, 1)
             [] r.kind = "unparseable" -> Generated(questions_fallback, c, 1)
             [] r.kind = "json" ->
                  LET result == questions_payload(r.variant)
                  IN  Generated(result, dict_set(c, cache_key, result), 1)

\* The first payload has guiding questions, the second has none.
lesson_payload(variant) ==
  IF variant = 1
  THEN [ explanation |-> "explanation",
         guiding_questions |-> << "guiding question 1", "guiding question 2" >> ]
  ELSE [ explanation |-> "explanation" ]

lesson_fallback(subject, subtopic) ==
  [ explanation |-> "explanation",
    key_concepts |-> << subtopic >>,
    guiding_questions |->
      << "What do you think it means?", "Why might it be important?",
         "Can you think of an example?" >> ]

generate_lesson_content(c, subject, subtopic, learner_level, r) ==
  LET cache_key == <<"lesson", subject, subtopic, learner_level>>
  IN  IF cache_key \in DOMAIN c THEN Generated(c[cache_key], c, 0)
      ELSE CASE r.kind = "raises" -> Failed("APIError", c, 1)
             [] r.kind = "unparseable" ->
                  Generated(lesson_fallback(subject, subtopic), c, 1)
             [] r.kind = "json" ->
                  LET result == lesson_payload(r.variant)
                  IN  Generated(result, dict_set(c, cache_key, result), 1)

\* The first payload: two problems with the answer "4" and two hints each.
\* The second: an empty array.
problems_payload(variant) ==
  IF variant = 1
  THEN << [id |-> "p1", answer |-> <<"4">>,
           hints |-> << "hint 1", "hint 2" >>, explanation |-> "explanation"],
          [id |-> "p2", answer |-> <<"4">>,
           hints |-> << "hint 1", "hint 2" >>, explanation |-> "explanation"] >>
  ELSE << >>

problems_fallback(subtopic) ==
  << [id |-> "p1", answer |-> OPEN_ENDED,
      hints |-> << "hint 1", "hint 2", "hint 3" >>,
      explanation |-> "explanation", concept |-> subtopic],
     [id |-> "p2", answer |-> OPEN_ENDED,
      hints |-> << "hint 1", "hint 2", "hint 3" >>,
      explanation |-> "explanation", concept |-> subtopic] >>

generate_practice_problems(c, subject, subtopic, difficulty, count, r) ==
  LET cache_key == <<"problems", subject, subtopic, difficulty>>
  IN  IF cache_key \in DOMAIN c THEN Generated(c[cache_key], c, 0)
      ELSE CASE r.kind = "raises" -> Failed("APIError", c, 1)
             [] r.kind = "unparseable" ->
                  Generated(problems_fallback(subtopic), c, 1)
             [] r.kind = "json" ->
                  LET result == problems_payload(r.variant)
                  IN  Generated(result, dict_set(c, cache_key, result), 1)

\* response.content[0].text.strip(): a response without content raises
\* IndexError; no try block is around either.  The reply is a function of
\* the prompt: it carries the conversation context the prompt was made of.
generate_socratic_response(c, subject, subtopic, learner_message, conversation_context, learner_level, r) ==
  CASE r.kind = "raises" -> Failed("APIError", c, 1)
    [] r.kind = "unparseable" -> Failed("IndexError", c, 1)
    [] r.kind = "json" ->
         Generated([reply |-> "socratic", text |-> r.variant,
                    context |-> conversation_context], c, 1)

\* The first payload judges the answer correct, the second partial.
evaluation_payload(variant) ==
  IF variant = 1
  THEN [correct |-> TRUE, partial |-> FALSE, feedback |-> "feedback",
        misconception |-> None]
  ELSE [correct |-> FALSE, partial |-> TRUE, feedback |-> "feedback",
        misconception |-> PyStr("misconception")]

evaluate_answer(c, question, expected, learner_answer, subject, r) ==
  CASE r.kind = "raises" -> Failed("APIError", c, 1)
    [] r.kind = "json" -> Generated(evaluation_payload(r.variant), c, 1)
    [] r.kind = "unparseable" ->
         IF lower(expected) = OPEN_ENDED
         THEN LET has_content == Len(strip(learner_answer)) > 10
              IN  Generated([correct |-> has_content, partial |-> ~has_content,
                             feedback |-> IF has_content
                                          THEN "Thanks for sharing!"
                                          ELSE "Could you tell me a bit more?",
                             misconception |-> None], c, 1)
         ELSE LET answer_lower == strip(lower(learner_answer))
                  expected_lower == strip(lower(expected))
                  is_correct == \/ answer_lower = expected_lower
                                \/ str_in(expected_lower, answer_lower)
              IN  Generated([correct |-> is_correct, partial |-> FALSE,
                             feedback |-> IF is_correct THEN "Let's continue."
                                          ELSE "Let me help you with that.",
                             misconception |-> None], c, 1)

-----------------------------------------------------------------------------
(* agent/socratic.py.  SocraticEngine.generate_hint: the predefined hints   *)
(* of the problem in order, then a hint asked of the service.  The tutor    *)
(* holds no SocraticEngine.                                                 *)

generate_hint(c, problem, learner_answer, hints_given, r) ==
  LET hints == dict_get(problem, "hints", << >>)
  IN  IF hints_given < Len(hints)
      THEN Generated([hint |-> hints[hints_given + 1]], c, 0)
      ELSE CASE r.kind = "raises" -> Failed("APIError", c, 1)
             [] r.kind = "unparseable" -> Failed("IndexError", c, 1)
             [] r.kind = "json" -> Generated([hint |-> "synthesized"], c, 1)

-----------------------------------------------------------------------------
(* agent/tutor.py.  A method of DynamicTutor is an operator on `self`, the  *)
(* record of the tutor's objects: profile, session, storage (the files of   *)
(* its Storage), cache (of its ContentGenerator) and t (its own fields).    *)
(* It yields the new self, what the method returned or raised, and the      *)
(* client.messages.create calls it made: r1 is the outcome of the first     *)
(* call of a turn, r2 of the second.  A str that may be None is None or     *)
(* PyStr of its characters.  The text of a reply is left out but for the    *)
(* template it is built from.                                               *)

\* DynamicTutor.__init__: the dynamic content state.
DynamicTutor ==
  [ subject |-> None,
    topic_overview |-> None,
    current_subtopic |-> None,
    current_subtopic_index |-> 0,
    lesson_content |-> None,
    assessment_questions |-> << >>,
    current_question_index |-> 0,
    practice_problems |-> << >>,
    current_problem |-> None,
    current_problem_index |-> 0,
    hints_given |-> 0 ]

Reply(template) == [reply |-> template]

Returned(self, value, calls) ==
  [self |-> self, ret |-> value, calls |-> calls, raised |-> FALSE]

Thrown(self, exc, calls) ==
  [self |-> self, ret |-> exc, calls |-> calls, raised |-> TRUE]

\* bool() of an Optional[str]
str_truthy(v) == v # None /\ v.str # << >>

Levels == {"beginner", "intermediate", "advanced"}

welcome_new(self) == Reply("welcome_new")

welcome_back(self) == Reply("welcome_back")

\* A mutation of start_session: the session count goes up for a new learner
\* as well.
start_session_counts_new(self, learner_id, name) ==
  LET exists == learner_exists(self.storage, learner_id)
      loaded == get_learner(self.storage, learner_id)
      s1 == IF exists
            THEN [self EXCEPT !.profile = [loaded EXCEPT !.total_sessions = @ + 1],
                              !.session = Session(learner_id)]
            ELSE self
  IN  IF exists /\ str_truthy(s1.profile.last_topic)
      THEN Returned([s1 EXCEPT !.session.state.flow_state = "returning"],
                    welcome_back(s1), 0)
      ELSE LET name1 == IF name = None THEN learner_id ELSE name.str
               created == create_learner(s1.storage, learner_id, name1)
               s2 == IF s1.profile = None
                     THEN [s1 EXCEPT !.profile = [created.ret EXCEPT !.total_sessions = @ + 1],
                                     !.storage = created.storage]
                     ELSE s1
               s3 == [s2 EXCEPT !.session =
                        [Session(learner_id) EXCEPT !.state.flow_state = "topic_selection"]]
           IN  Returned(s3, welcome_new(s3), 0)

start_session(self, learner_id, name) ==
  LET exists == learner_exists(self.storage, learner_id)
      loaded == get_learner(self.storage, learner_id)
      s1 == IF exists
            THEN [self EXCEPT !.profile = [loaded EXCEPT !.total_sessions = @ + 1],
                              !.session = Session(learner_id)]
            ELSE self
  IN  IF exists /\ str_truthy(s1.profile.last_topic)
      THEN Returned([s1 EXCEPT !.session.state.flow_state = "returning"],
                    welcome_back(s1), 0)
      ELSE LET name1 == IF name = None THEN learner_id ELSE name.str
               created == create_learner(s1.storage, learner_id, name1)
               s2 == IF s1.profile = None
                     THEN [s1 EXCEPT !.profile = created.ret,
                                     !.storage = created.storage]
                     ELSE s1
               s3 == [s2 EXCEPT !.session =
                        [Session(learner_id) EXCEPT !.state.flow_state = "topic_selection"]]
           IN  Returned(s3, welcome_new(s3), 0)

\* _start_teaching
start_teaching_first(self, r, calls) ==
  LET s1 == [self EXCEPT !.session.state.flow_state = "teaching"]
      listed == dict_get(self.t.topic_overview, "subtopics", << >>)
      subtopics == IF listed = << >>
                   THEN << [id |-> "main", name |-> self.t.subject,
                            description |-> "description"] >>
                   ELSE listed
      s2 == [s1 EXCEPT !.t.current_subtopic_index = 0,
                       !.t.current_subtopic = subtopics[1]]
      lesson == generate_lesson_content(
                  s2.cache, s2.t.subject,
                  dict_get(s2.t.current_subtopic, "name", s2.t.subject),
                  s2.profile.current_level, r)
  IN  IF lesson.raised THEN Thrown(s2, lesson.ret, calls + lesson.calls)
      ELSE Returned([s2 EXCEPT !.t.lesson_content = lesson.ret,
                               !.cache = lesson.cache],
                    Reply("start_teaching"), calls + lesson.calls)

\* _handle_topic_selection
handle_topic_selection(self, user_input, r1, r2) ==
  LET subject == PyStr(strip(user_input))
      p1 == [self.profile EXCEPT !.last_topic = subject]
      s1 == [self EXCEPT !.t.subject = subject,
                         !.profile = p1,
                         !.storage = save_learner(self.storage, p1)]
      overview == generate_topic_overview(s1.cache, subject,
                                          p1.current_level, r1)
  IN  IF overview.raised THEN Thrown(s1, overview.ret, overview.calls)
      ELSE
      LET s2 == [s1 EXCEPT !.t.topic_overview = overview.ret,
                           !.cache = overview.cache]
          questions == generate_assessment_questions(
                         s2.cache, subject, 5,
                         IF overview.calls = 0 THEN r1 ELSE r2)
          calls == overview.calls + questions.calls
      IN  IF questions.raised THEN Thrown(s2, questions.ret, calls)
          ELSE
          LET s3 == [s2 EXCEPT !.t.assessment_questions = questions.ret,
                               !.cache = questions.cache,
                               !.session.state.flow_state = "assessment",
                               !.session.state.current_topic = subject,
                               !.t.current_question_index = 0]
          IN  IF questions.ret = << >>
              THEN Thrown(s3, Raised("IndexError"), calls)
              ELSE Returned(s3, Reply("first_question"), calls)

\* _handle_returning_choice
handle_returning_choice(self, user_input, r1, r2) ==
  LET lowered == strip(lower(user_input))
  IN  IF str_in(<<"c","o","n","t","i","n","u","e">>, lowered) \/ lowered = <<"1">>
      THEN LET s1 == [self EXCEPT !.t.subject = self.profile.last_topic]
               overview == generate_topic_overview(
                             s1.cache, s1.t.subject,
                             s1.profile.current_level, r1)
           IN  IF overview.raised THEN Thrown(s1, overview.ret, overview.calls)
               ELSE start_teaching_first(
                      [s1 EXCEPT !.t.topic_overview = overview.ret,
                                 !.cache = overview.cache],
                      IF overview.calls = 0 THEN r1 ELSE r2, overview.calls)
      ELSE handle_topic_selection(
             [self EXCEPT !.session.state.flow_state = "topic_selection"],
             user_input, r1, r2)

\* The questions' levels, by index, of the answers recorded: how many at
\* the level were answered correctly.
correct_by_level(self, level) ==
  Cardinality(
    {i \in 1..min(Len(self.session.state.assessment_answers),
                  Len(self.t.assessment_questions)) :
       /\ dict_get(self.t.assessment_questions[i], "level", "beginner") = level
       /\ dict_get(self.session.state.assessment_answers[i], "correct", FALSE)})

\* _complete_assessment
complete_assessment(self, r, calls) ==
  LET unknown_level ==
        \E i \in 1..min(Len(self.session.state.assessment_answers),
                        Len(self.t.assessment_questions)) :
          dict_get(self.t.assessment_questions[i], "level", "beginner")
            \notin Levels
      level ==
        IF correct_by_level(self, "advanced") > 0
           /\ correct_by_level(self, "intermediate") > 0
        THEN "advanced"
        ELSE IF correct_by_level(self, "intermediate") > 0
                /\ correct_by_level(self, "beginner") > 0
        THEN "intermediate"
        ELSE "beginner"
      p1 == [self.profile EXCEPT !.current_level = level]
      s1 == [self EXCEPT !.profile = p1,
                         !.storage = save_learner(self.storage, p1)]
      overview == generate_topic_overview(s1.cache, s1.t.subject, level, r)
  IN  IF unknown_level THEN Thrown(self, Raised("KeyError"), calls)
      ELSE IF overview.raised
      THEN Thrown(s1, overview.ret, calls + overview.calls)
      ELSE Returned([s1 EXCEPT !.t.topic_overview = overview.ret,
                               !.cache = overview.cache],
                    Reply("assessment_complete"), calls + overview.calls)

ReadyWords ==
  { <<"y","e","s">>, <<"r","e","a","d","y">>, <<"o","k">>, <<"s","u","r","e">>,
    <<"l","e","t","'","s"," ","g","o">>, <<"s","t","a","r","t">> }

\* _handle_assessment
handle_assessment(self, user_input, r1, r2) ==
  IF self.t.current_question_index >= Len(self.t.assessment_questions)
  THEN LET lowered == strip(lower(user_input))
       IN  IF lowered \in ReadyWords \cup {<<"b","e","g","i","n">>}
           THEN start_teaching_first(self, r1, 0)
           ELSE LET said == generate_socratic_response(
                              self.cache, self.t.subject,
                              PyStr(<<"g","e","t","t","i","n","g"," ","s","t","a","r","t","e","d">>),
                              user_input, << >>,
                              self.profile.current_level, r1)
                IN  IF said.raised THEN Thrown(self, said.ret, said.calls)
                    ELSE Returned(self, said.ret, said.calls)
  ELSE LET current_q ==
             self.t.assessment_questions[self.t.current_question_index + 1]
           evaluation == evaluate_answer(
                           self.cache, dict_get(current_q, "question", << >>),
                           dict_get(current_q, "answer", << >>),
                           user_input, self.t.subject, r1)
       IN  IF evaluation.raised
           THEN Thrown(self, evaluation.ret, evaluation.calls)
           ELSE
           LET s1 == [self EXCEPT
                        !.session.state =
                           add_assessment_answer(
                             @, dict_get(current_q, "id", "q"),
                             user_input,
                             dict_get(evaluation.ret, "correct", FALSE)),
                        !.t.current_question_index = @ + 1]
           IN  IF s1.t.current_question_index >= Len(s1.t.assessment_questions)
               THEN complete_assessment(s1, r2, evaluation.calls)
               ELSE Returned(s1, Reply("next_question"), evaluation.calls)

\* _next_subtopic
next_subtopic(self, r) ==
  LET subtopics == dict_get(self.t.topic_overview, "subtopics", << >>)
      s1 == [self EXCEPT !.t.current_subtopic_index = @ + 1]
  IN  IF s1.t.current_subtopic_index >= Len(subtopics)
      THEN Returned(s1, Reply("subtopics_covered"), 0)
      ELSE LET s2 == [s1 EXCEPT !.t.current_subtopic =
                                   subtopics[s1.t.current_subtopic_index + 1]]
               lesson == generate_lesson_content(
                           s2.cache, s2.t.subject,
                           dict_get(s2.t.current_subtopic, "name", PyStr(<< >>)),
                           s2.profile.current_level, r)
           IN  IF lesson.raised THEN Thrown(s2, lesson.ret, lesson.calls)
               ELSE Returned([s2 EXCEPT !.t.lesson_content = lesson.ret,
                                        !.cache = lesson.cache],
                             Reply("next_subtopic"), lesson.calls)

\* _start_practice
start_practice_problems(self, r) ==
  LET s1 == [self EXCEPT !.session.state.flow_state = "practice"]
      subtopic_name == IF self.t.current_subtopic # None
                       THEN dict_get(self.t.current_subtopic, "name",
                                     self.t.subject)
                       ELSE self.t.subject
      problems == generate_practice_problems(
                    s1.cache, s1.t.subject, subtopic_name,
                    s1.profile.current_level, 3, r)
  IN  IF problems.raised THEN Thrown(s1, problems.ret, problems.calls)
      ELSE LET s2 == [s1 EXCEPT !.t.practice_problems = problems.ret,
                                !.cache = problems.cache,
                                !.t.current_problem_index = 0,
                                !.t.hints_given = 0]
           IN  IF problems.ret = << >>
               THEN Returned(s2, Reply("try_again_in_a_moment"), problems.calls)
               ELSE Returned([s2 EXCEPT !.t.current_problem = problems.ret[1]],
                             Reply("first_problem"), problems.calls)

PracticeWords ==
  { <<"p","r","a","c","t","i","c","e">>, <<"p","r","o","b","l","e","m">>,
    <<"q","u","i","z">>, <<"t","e","s","t"," ","m","e">> }

NextWords ==
  { <<"n","e","x","t">>, <<"m","o","v","e"," ","o","n">>,
    <<"n","e","x","t"," ","t","o","p","i","c">> }

\* A mutation of _handle_teaching: the next triggers are looked for before
\* the practice triggers, and the responder gets the last 5 entries.
handle_teaching_next_first(self, user_input, r1, r2) ==
  LET lowered == strip(lower(user_input))
  IN  IF \E word \in NextWords : str_in(word, lowered)
      THEN next_subtopic(self, r1)
      ELSE IF \E word \in PracticeWords : str_in(word, lowered)
      THEN start_practice_problems(self, r1)
      ELSE IF lowered \in ReadyWords
      THEN start_teaching_first(self, r1, 0)
      ELSE LET recent == get_recent_context(self.session.state, 5)
               said == generate_socratic_response(
                         self.cache, self.t.subject,
                         IF self.t.current_subtopic # None
                         THEN dict_get(self.t.current_subtopic, "name",
                                       self.t.subject)
                         ELSE self.t.subject,
                         user_input, recent,
                         self.profile.current_level, r1)
           IN  IF said.raised THEN Thrown(self, said.ret, said.calls)
               ELSE Returned(self, said.ret, said.calls)

\* _handle_teaching
handle_teaching(self, user_input, r1, r2) ==
  LET lowered == strip(lower(user_input))
  IN  IF \E word \in PracticeWords : str_in(word, lowered)
      THEN start_practice_problems(self, r1)
      ELSE IF \E word \in NextWords : str_in(word, lowered)
      THEN next_subtopic(self, r1)
      ELSE IF lowered \in ReadyWords
      THEN start_teaching_first(self, r1, 0)
      ELSE LET recent == get_recent_context(self.session.state, 3)
               said == generate_socratic_response(
                         self.cache, self.t.subject,
                         IF self.t.current_subtopic # None
                         THEN dict_get(self.t.current_subtopic, "name",
                                       self.t.subject)
                         ELSE self.t.subject,
                         user_input, recent,
                         self.profile.current_level, r1)
           IN  IF said.raised THEN Thrown(self, said.ret, said.calls)
               ELSE Returned(self, said.ret, said.calls)

\* A mutation of _next_problem: after the last problem the session goes
\* back to phase teaching.
next_problem_back_to_teaching(self, calls) ==
  LET s1 == [self EXCEPT !.t.current_problem_index = @ + 1,
                         !.t.hints_given = 0]
  IN  IF s1.t.current_problem_index >= Len(s1.t.practice_problems)
      THEN Returned([s1 EXCEPT !.session.state.flow_state = "teaching"],
                    Reply("practice_complete"), calls)
      ELSE Returned([s1 EXCEPT !.t.current_problem =
                       s1.t.practice_problems[s1.t.current_problem_index + 1]],
                    Reply("next_problem"), calls)

\* A mutation of _next_problem: the count of hints given is kept.
next_problem_keeps_hints(self, calls) ==
  LET s1 == [self EXCEPT !.t.current_problem_index = @ + 1]
  IN  IF s1.t.current_problem_index >= Len(s1.t.practice_problems)
      THEN Returned(s1, Reply("practice_complete"), calls)
      ELSE Returned([s1 EXCEPT !.t.current_problem =
                       s1.t.practice_problems[s1.t.current_problem_index + 1]],
                    Reply("next_problem"), calls)

\* A mutation of _next_problem: the hints are reset, the problem stays.
next_problem_stays(self, calls) ==
  Returned([self EXCEPT !.t.hints_given = 0], Reply("next_problem"), calls)

\* _next_problem
next_problem(self, calls) ==
  LET s1 == [self EXCEPT !.t.current_problem_index = @ + 1,
                         !.t.hints_given = 0]
  IN  IF s1.t.current_problem_index >= Len(s1.t.practice_problems)
      THEN Returned(s1, Reply("practice_complete"), calls)
      ELSE Returned([s1 EXCEPT !.t.current_problem =
                                  s1.t.practice_problems[s1.t.current_problem_index + 1]],
                    Reply("next_problem"), calls)

HintWords ==
  { <<"h","i","n","t">>, <<"h","e","l","p">>, <<"s","t","u","c","k">>,
    <<"c","l","u","e">> }

GiveUpWords ==
  { <<"g","i","v","e"," ","u","p">>, <<"a","n","s","w","e","r">>,
    <<"s","h","o","w"," ","a","n","s","w","e","r">>, <<"s","k","i","p">>,
    <<"i"," ","d","o","n","'","t"," ","k","n","o","w">> }

\* _handle_practice
handle_practice(self, user_input, r1, r2) ==
  IF self.t.current_problem = None
  THEN start_practice_problems(self, r1)
  ELSE
  LET lowered == strip(lower(user_input))
      problem == self.t.current_problem
  IN  IF lowered \in HintWords
      THEN IF self.t.hints_given < Len(dict_get(problem, "hints", << >>))
           THEN Returned([self EXCEPT !.t.hints_given = @ + 1],
                         [reply |-> "hint",
                          hint |-> problem.hints[self.t.hints_given + 1]], 0)
           ELSE Returned(self, Reply("all_hints_given"), 0)
      ELSE IF lowered \in GiveUpWords
      THEN LET next == next_problem(
                         [self EXCEPT !.session =
                            record_problem(@, dict_get(problem, "id", "p1"),
                                           user_input, FALSE, "gave up")], 0)
           IN  [next EXCEPT !.ret =
                  [reply |-> "the_answer_is",
                   answer |-> dict_get(problem, "answer", << >>),
                   then |-> next.ret.reply]]
      ELSE LET evaluation == evaluate_answer(
                               self.cache, dict_get(problem, "question", << >>),
                               dict_get(problem, "answer", << >>),
                               user_input, self.t.subject, r1)
           IN  IF evaluation.raised
               THEN Thrown(self, evaluation.ret, evaluation.calls)
               ELSE IF dict_get(evaluation.ret, "correct", FALSE)
               THEN LET current_mastery ==
                          dict_get(self.profile.knowledge.topics_mastered,
                                   self.t.subject, 0)
                        p1 == update_mastery(self.profile, self.t.subject,
                                             current_mastery + 15)
                        next == next_problem(
                                  [self EXCEPT
                                     !.session =
                                        record_problem(
                                          @, dict_get(problem, "id", "p1"),
                                          user_input, TRUE, "correct"),
                                     !.profile = p1,
                                     !.storage = save_learner(self.storage, p1)],
                                  evaluation.calls)
                    IN  [next EXCEPT !.ret =
                           [reply |-> "that_is_correct",
                            then |-> next.ret.reply]]
               ELSE Returned(
                      [self EXCEPT !.session =
                         record_problem(@, dict_get(problem, "id", "p1"),
                                        user_input, FALSE, "incorrect")],
                      Reply("try_again"), evaluation.calls)

handle_input(self, user_input, r1, r2) ==
  IF self.session = None
  THEN Returned(self, Reply("Please start a session first."), 0)
  ELSE
  Bind([self EXCEPT !.session = record_exchange(@, "user", PyStr(user_input))],
       LAMBDA s1 :
  Bind(s1.session.state.flow_state, LAMBDA flow_state :
  Bind(CASE flow_state = "topic_selection" ->
                handle_topic_selection(s1, user_input, r1, r2)
         [] flow_state = "returning" ->
                handle_returning_choice(s1, user_input, r1, r2)
         [] flow_state = "assessment" ->
                handle_assessment(s1, user_input, r1, r2)
         [] flow_state = "teaching" ->
                handle_teaching(s1, user_input, r1, r2)
         [] flow_state = "practice" ->
                handle_practice(s1, user_input, r1, r2)
         [] OTHER -> handle_topic_selection(s1, user_input, r1, r2),
       LAMBDA handled :
  IF handled.raised THEN handled
  ELSE [handled EXCEPT !.self.session =
          record_exchange(@, "assistant", handled.ret)])))

\* A mutation of end_session: the report always has the accuracy line.
end_session_reports_accuracy(self) ==
  IF self.session = None \/ self.profile = None
  THEN Returned(self, Reply("No active session to end."), 0)
  ELSE LET summary == get_summary(self.session)
           p1 == add_session_summary(self.profile, summary)
       IN  Returned([self EXCEPT !.profile = p1,
                                 !.storage = save_learner(self.storage, p1)],
                    [reply |-> "session_report",
                     with_accuracy |-> TRUE], 0)

\* A mutation of end_session: without a session, an empty one is opened.
end_session_opens_session(self) ==
  IF self.session = None \/ self.profile = None
  THEN Returned([self EXCEPT !.session = Session("")],
                Reply("No active session to end."), 0)
  ELSE LET summary == get_summary(self.session)
           p1 == add_session_summary(self.profile, summary)
       IN  Returned([self EXCEPT !.profile = p1,
                                 !.storage = save_learner(self.storage, p1)],
                    [reply |-> "session_report",
                     with_accuracy |-> summary.problems_attempted > 0], 0)

end_session(self) ==
  IF self.session = None \/ self.profile = None
  THEN Returned(self, Reply("No active session to end."), 0)
  ELSE LET summary == get_summary(self.session)
           p1 == add_session_summary(self.profile, summary)
       IN  Returned([self EXCEPT !.profile = p1,
                                 !.storage = save_learner(self.storage, p1)],
                    [reply |-> "session_report",
                     with_accuracy |-> summary.problems_attempted > 0], 0)

\* Nothing is set up: InitApp is what the objects are before any of them is
\* constructed or, for the tutor, right after DynamicTutor().
InitApp ==
  /\ session = None
  /\ profile = None
  /\ storage = << >>
  /\ cache = << >>
  /\ tutor = DynamicTutor
  /\ script = << >>
  /\ calls_made = 0

-----------------------------------------------------------------------------
(* Inputs *)

\* What the judge may answer when it is called.
JudgeResponses ==
  { [kind |-> "raises"],
    [kind |-> "no_json"],
    [kind |-> "bad_json"],
    [kind |-> "json",
     value |-> [correct |-> TRUE, partial |-> FALSE, feedback |-> PyStr("judge")]],
    [kind |-> "json",
     value |-> [correct |-> FALSE, partial |-> TRUE, feedback |-> PyStr("judge")]],
    [kind |-> "json", value |-> [feedback |-> PyStr("judge")]] }

\* The learner's answers to the diagnostic assessment: "DNA", "blue" and
\* "genes: one masks traits".
Answers ==
  { <<"D","N","A">>,
    <<"b","l","u","e">>,
    <<"g","e","n","e","s",":"," ","o","n","e"," ","m","a","s","k","s"," ","t","r","a","i","t","s">> }

\* The answers given to the evaluator called on its own: those above and
\* " Brown ", "25 percent", "yes", "".
EvalAnswers ==
  Answers \cup
  { <<" ","B","r","o","w","n"," ">>,
    <<"2","5"," ","p","e","r","c","e","n","t">>,
    <<"y","e","s">>,
    << >> }

\* The ids get_question and get_next_question are called with.
ProbeIds == BankIds \cup {"start", "end", "diag_999", ""}

IsQuestion(v) == "id" \in DOMAIN v

-----------------------------------------------------------------------------
(* DiagnosticAssessment *)

\* The result submit_answer appends.  Its "question" and "answer" texts are
\* left out: they are stored and never read.
assessment_result(question, answer, evaluation) ==
  [ question_id |-> question.id,
    correct |-> dict_get(evaluation, "correct", FALSE),
    partial |-> dict_get(evaluation, "partial", FALSE),
    level |-> dict_get(question, "level", "beginner"),
    topic |-> dict_get(question, "topic", "") ]

\* A mutation of start: the results of the previous run are kept.
start_keeps_results ==
  /\ current_question' = get_first_question
  /\ ret' = current_question'
  /\ last_call' = [op |-> "start",
                   had_results |-> (results # << >>),
                   had_question |-> (current_question # None)]
  /\ judge_calls' = 0
  /\ UNCHANGED << client, results, travVars, appVars >>

start ==
  /\ results' = << >>
  /\ current_question' = get_first_question
  /\ ret' = current_question'
  /\ last_call' = [op |-> "start",
                   had_results |-> (results # << >>),
                   had_question |-> (current_question # None)]
  /\ judge_calls' = 0
  /\ UNCHANGED << client, travVars, appVars >>

\* A mutation of submit_answer: the graph is followed with the verdict's
\* partial flag.
submit_answer_by_partial(answer, response) ==
  /\ last_call' = [op |-> "submit_answer", answer |-> answer]
  /\ IF current_question = None
     THEN /\ ret' = [error |-> "No active question", complete |-> TRUE]
          /\ judge_calls' = 0
          /\ UNCHANGED << results, current_question >>
     ELSE LET ev == evaluate(client, current_question, answer, TRUE, response)
              evaluation == ev.ret
              is_correct == dict_get(evaluation, "partial", FALSE)
              next_q == get_next_question(current_question.id, is_correct)
          IN  /\ results' = Append(results,
                              assessment_result(current_question, answer, evaluation))
              /\ judge_calls' = ev.calls
              /\ current_question' = next_q
              /\ ret' = [evaluation |-> evaluation,
                         next_question |-> next_q,
                         complete |-> (next_q = None)]
  /\ UNCHANGED << client, travVars, appVars >>

\* A mutation of submit_answer: with no current question the assessment is
\* started over instead of being left alone.
submit_answer_restarts(answer, response) ==
  /\ last_call' = [op |-> "submit_answer", answer |-> answer]
  /\ IF current_question = None
     THEN /\ ret' = [error |-> "No active question", complete |-> TRUE]
          /\ judge_calls' = 0
          /\ results' = << >>
          /\ current_question' = get_first_question
     ELSE LET ev == evaluate(client, current_question, answer, TRUE, response)
              evaluation == ev.ret
              is_correct == dict_get(evaluation, "correct", FALSE)
              next_q == get_next_question(current_question.id, is_correct)
          IN  /\ results' = Append(results,
                              assessment_result(current_question, answer, evaluation))
              /\ judge_calls' = ev.calls
              /\ current_question' = next_q
              /\ ret' = [evaluation |-> evaluation,
                         next_question |-> next_q,
                         complete |-> (next_q = None)]
  /\ UNCHANGED << client, travVars, appVars >>

submit_answer(answer, response) ==
  /\ last_call' = [op |-> "submit_answer", answer |-> answer]
  /\ IF current_question = None
     THEN /\ ret' = [error |-> "No active question", complete |-> TRUE]
          /\ judge_calls' = 0
          /\ UNCHANGED << results, current_question >>
     ELSE LET ev == evaluate(client, current_question, answer, TRUE, response)
              evaluation == ev.ret
              is_correct == dict_get(evaluation, "correct", FALSE)
              next_q == get_next_question(current_question.id, is_correct)
          IN  /\ results' = Append(results,
                              assessment_result(current_question, answer, evaluation))
              /\ judge_calls' = ev.calls
              /\ IF IsRaised(next_q)
                 THEN /\ ret' = next_q
                      /\ UNCHANGED current_question
                 ELSE /\ current_question' = next_q
                      /\ ret' = [evaluation |-> evaluation,
                                 next_question |-> next_q,
                                 complete |-> (next_q = None)]
  /\ UNCHANGED << client, travVars, appVars >>

Init ==
  /\ client \in {None, JudgeClient}
  /\ results = << >>
  /\ current_question = None
  /\ last_call = NoCall
  /\ ret = None
  /\ judge_calls = 0
  /\ trav_id = ""
  /\ trav_trace = << >>
  /\ InitApp

Next ==
  \/ start
  \/ \E answer \in Answers, response \in JudgeResponses :
       submit_answer(answer, response)

Spec == Init /\ [][Next]_vars

-----------------------------------------------------------------------------
(* The decision graph walked on its own: get_question and                   *)
(* get_next_question called with any id, the latter again with the id of    *)
(* the question it returned.                                                *)

call_get_question ==
  /\ last_call = NoCall
  /\ last_call' = [op |-> "get_question", question_id |-> trav_id]
  /\ ret' = get_question(trav_id)
  /\ UNCHANGED << diagVars, judge_calls, travVars, appVars >>

call_get_next_question(was_correct) ==
  /\ \/ last_call = NoCall
     \/ last_call.op = "get_next_question" /\ IsQuestion(ret)
  /\ last_call' = [op |-> "get_next_question", current_id |-> trav_id,
                   was_correct |-> was_correct]
  /\ ret' = get_next_question(trav_id, was_correct)
  /\ trav_trace' = Append(trav_trace,
                          [current_id |-> trav_id, was_correct |-> was_correct])
  /\ trav_id' = IF IsQuestion(ret') THEN ret'.id ELSE trav_id
  /\ UNCHANGED << diagVars, judge_calls, appVars >>

InitGraph ==
  /\ client = None
  /\ results = << >>
  /\ current_question = None
  /\ last_call = NoCall
  /\ ret = None
  /\ judge_calls = 0
  /\ trav_id \in ProbeIds
  /\ trav_trace = << >>
  /\ InitApp

NextGraph ==
  \/ call_get_question
  \/ \E was_correct \in BOOLEAN : call_get_next_question(was_correct)

SpecGraph == InitGraph /\ [][NextGraph]_vars

-----------------------------------------------------------------------------
(* The evaluator called on its own, with any question of the bank *)

call_evaluate(question, answer, use_llm, response) ==
  LET ev == evaluate(client, question, answer, use_llm, response)
  IN  /\ last_call = NoCall
      /\ last_call' = [op |-> "evaluate", question |-> question,
                       answer |-> answer, use_llm |-> use_llm,
                       response |-> response]
      /\ ret' = ev.ret
      /\ judge_calls' = ev.calls
      /\ UNCHANGED << diagVars, travVars, appVars >>

NextEval ==
  \E i \in DOMAIN DIAGNOSTIC_QUESTIONS, answer \in EvalAnswers,
     use_llm \in BOOLEAN, response \in JudgeResponses :
       call_evaluate(DIAGNOSTIC_QUESTIONS[i], answer, use_llm, response)

SpecEval == Init /\ [][NextEval]_vars

-----------------------------------------------------------------------------
(* The pure methods of DiagnosticAssessment on a results list assigned      *)
(* directly, as the tests do (assessment.results = [...]).                  *)

MaxResults == 4

\* The entries the lists are made of: results as submit_answer records them
\* and, last, one with only the keys the tests give.
SampleResults ==
  { [question_id |-> "diag_001", correct |-> TRUE, partial |-> FALSE,
     level |-> "beginner", topic |-> "dna_basics"],
    [question_id |-> "diag_001", correct |-> FALSE, partial |-> FALSE,
     level |-> "beginner", topic |-> "dna_basics"],
    [question_id |-> "diag_003", correct |-> TRUE, partial |-> FALSE,
     level |-> "intermediate", topic |-> "punnett_squares"],
    [question_id |-> "diag_004", correct |-> FALSE, partial |-> TRUE,
     level |-> "intermediate", topic |-> "mendelian_inheritance"],
    [question_id |-> "diag_005", correct |-> TRUE, partial |-> FALSE,
     level |-> "advanced", topic |-> "punnett_squares"],
    [question_id |-> "diag_005", correct |-> FALSE, partial |-> FALSE,
     level |-> "advanced", topic |-> "punnett_squares"],
    [correct |-> FALSE, level |-> "intermediate"] }

assign_results(result) ==
  /\ last_call = NoCall
  /\ Len(results) < MaxResults
  /\ results' = Append(results, result)
  /\ UNCHANGED << client, current_question, last_call, ret, judge_calls, travVars, appVars >>

call_get_level ==
  /\ last_call' = [op |-> "get_level"]
  /\ ret' = PyStr(get_level(results))
  /\ UNCHANGED << diagVars, judge_calls, travVars, appVars >>

call_get_knowledge_gaps ==
  /\ last_call' = [op |-> "get_knowledge_gaps"]
  /\ ret' = get_knowledge_gaps(results)
  /\ UNCHANGED << diagVars, judge_calls, travVars, appVars >>

call_get_strengths ==
  /\ last_call' = [op |-> "get_strengths"]
  /\ ret' = get_strengths(results)
  /\ UNCHANGED << diagVars, judge_calls, travVars, appVars >>

NextResults ==
  \/ \E result \in SampleResults : assign_results(result)
  \/ call_get_level
  \/ call_get_knowledge_gaps
  \/ call_get_strengths

InitResults == Init /\ client = None

SpecResults == InitResults /\ [][NextResults]_vars

-----------------------------------------------------------------------------
(* The decision graph: C1, C2, C3 (under SpecGraph) *)

\* The target the branch rule of a bank question selects.
rule_target(current_id, was_correct) ==
  LET rule == QUESTION_SEQUENCE[current_id]
  IN  IF "next" \in DOMAIN rule THEN rule["next"]
      ELSE IF was_correct THEN rule["correct"] ELSE rule["wrong"]

FollowUpIds == {"diag_001b", "diag_002b", "diag_003b"}

\* C1: a traversal that starts at a question of the bank never raises, visits
\* no id twice, makes at most as many calls as the bank has questions (8), and
\* its 8th call, if it is made, returns None; every call before the one that
\* returns None returns the question the next call is made with.
C1_GraphTermination ==
  (trav_trace # << >> /\ trav_trace[1].current_id \in BankIds) =>
    /\ Len(DIAGNOSTIC_QUESTIONS) = 8
    /\ Len(trav_trace) <= Len(DIAGNOSTIC_QUESTIONS)
    /\ \A i, j \in DOMAIN trav_trace :
         i # j => trav_trace[i].current_id # trav_trace[j].current_id
    /\ ret = None \/ (IsQuestion(ret) /\ ret.id = trav_id)
    /\ Len(trav_trace) = Len(DIAGNOSTIC_QUESTIONS) => ret = None

C1_Witness ==
  /\ Len(trav_trace) = 8
  /\ trav_trace[1].current_id = "diag_001"
  /\ trav_trace[8].current_id = "diag_005"
  /\ ret = None

\* C2: for every id that is not the id of a question of the bank, "start" and
\* "end" among them, get_next_question returns None for both values of
\* was_correct and get_question returns None.
C2_UnknownIdReturnsNone ==
  /\ (last_call.op = "get_next_question" /\ last_call.current_id \notin BankIds)
       => ret = None
  /\ (last_call.op = "get_question" /\ last_call.question_id \notin BankIds)
       => ret = None

\* C3: get_next_question on a bank question returns the question its branch
\* rule selects, None when the rule selects "end"; a follow-up question has an
\* unconditional rule and the same successor for both values of was_correct;
\* diag_001 leads to diag_002 when correct and to diag_001b when wrong.
C3_BranchRule ==
  (last_call.op = "get_next_question" /\ last_call.current_id \in BankIds) =>
    LET id == last_call.current_id
        target == rule_target(id, last_call.was_correct)
    IN  /\ target = "end" => ret = None
        /\ target # "end" => IsQuestion(ret) /\ ret.id = target /\ target \in BankIds
        /\ id \in FollowUpIds =>
             /\ "next" \in DOMAIN QUESTION_SEQUENCE[id]
             /\ IsQuestion(ret)
             /\ get_next_question(id, TRUE) = get_next_question(id, FALSE)
        /\ id \notin FollowUpIds => DOMAIN QUESTION_SEQUENCE[id] = {"correct", "wrong"}
        /\ (id = "diag_001" /\ last_call.was_correct) => ret.id = "diag_002"
        /\ (id = "diag_001" /\ ~last_call.was_correct) => ret.id = "diag_001b"

C3_Witness ==
  /\ last_call.op = "get_next_question"
  /\ last_call.current_id = "diag_002b"
  /\ ~last_call.was_correct
  /\ IsQuestion(ret)
  /\ ret.id = "diag_003"

-----------------------------------------------------------------------------
(* The diagnostic assessment: C4, C5, C6 (under Spec) *)

IsPrefix(s, t) == Len(s) <= Len(t) /\ SubSeq(t, 1, Len(s)) = s

\* C4: start() returns diag_001 and makes it the current question; a
\* submit_answer made while there is a current question appends exactly one
\* result, for that question, and moves to the target its branch rule selects
\* for the verdict's correct flag; complete is true exactly when that target is
\* "end" (no next question), and otherwise the current question is the returned
\* next_question.  "DNA" on diag_001 is correct and leads to diag_002; without a
\* judge "blue" on diag_002 is incorrect and leads to diag_002b; diag_002b leads
\* to diag_003 whatever the verdict.
C4_AssessmentStep ==
  [][ /\ last_call'.op = "start" =>
           /\ IsQuestion(ret') /\ ret'.id = "diag_001"
           /\ current_question' = ret'
      /\ (last_call'.op = "submit_answer" /\ current_question # None) =>
           /\ ~IsRaised(ret')
           /\ LET q == current_question
                  r == results'[Len(results')]
                  flag == dict_get(ret'.evaluation, "correct", FALSE)
                  target == rule_target(q.id, flag)
              IN  /\ Len(results') = Len(results) + 1
                  /\ IsPrefix(results, results')
                  /\ r.question_id = q.id
                  /\ r.correct = flag
                  /\ r.level = q.level /\ r.topic = q.topic
                  /\ ret'.complete = (target = "end")
                  /\ ret'.complete = (ret'.next_question = None)
                  /\ current_question' = ret'.next_question
                  /\ target # "end" =>
                       IsQuestion(current_question') /\ current_question'.id = target
                  /\ (last_call'.answer = <<"D","N","A">> /\ q.id = "diag_001") =>
                       flag /\ current_question'.id = "diag_002"
                  /\ (last_call'.answer = <<"b","l","u","e">> /\ q.id = "diag_002"
                        /\ client = None) =>
                       ~flag /\ current_question'.id = "diag_002b"
                  /\ q.id = "diag_002b" => current_question'.id = "diag_003"
    ]_vars

C4_Witness ==
  /\ client = None
  /\ last_call.op = "submit_answer"
  /\ last_call.answer = <<"b","l","u","e">>
  /\ Len(results) = 2
  /\ results[1].question_id = "diag_001" /\ results[1].correct
  /\ results[2].question_id = "diag_002" /\ ~results[2].correct
  /\ ~ret.complete
  /\ current_question # None
  /\ current_question.id = "diag_002b"

\* C5: submit_answer called when there is no current question returns the
\* error result with complete = true, does not raise, and leaves results and
\* current_question as they were, every time it is called.
C5_NoActiveQuestion ==
  [][ (last_call'.op = "submit_answer" /\ current_question = None) =>
        /\ ret' = [error |-> "No active question", complete |-> TRUE]
        /\ results' = results
        /\ current_question' = None
    ]_vars

C5_Witness ==
  /\ last_call.op = "submit_answer"
  /\ "error" \in DOMAIN ret
  /\ ret.complete
  /\ results # << >>
  /\ current_question = None

\* C6: a step that is not start() leaves the results recorded so far in place
\* (it can only append); start(), called idle, running or complete, empties the
\* results and makes diag_001 the current question.
C6_AppendOnly ==
  [][ /\ last_call'.op # "start" => IsPrefix(results, results')
      /\ last_call'.op = "start" =>
           /\ results' = << >>
           /\ IsQuestion(current_question')
           /\ current_question'.id = "diag_001"
    ]_vars

C6_Witness ==
  /\ last_call.op = "start"
  /\ last_call.had_results
  /\ ~last_call.had_question
  /\ results = << >>
  /\ current_question # None
  /\ current_question.id = "diag_001"

-----------------------------------------------------------------------------
(* Level, gaps and strengths: C7, C8 (under SpecResults) *)

level_of(result) == dict_get(result, "level", "beginner")

attempted(rs, level) == Cardinality({i \in DOMAIN rs : level_of(rs[i]) = level})

correct_count(rs, level) ==
  Cardinality({i \in DOMAIN rs : level_of(rs[i]) = level /\ truthy(rs[i], "correct")})

\* accuracy = correct/attempted (0 when nothing was attempted) is >= 0.5
accuracy_at_least_half(rs, level) ==
  attempted(rs, level) > 0 /\ 2 * correct_count(rs, level) >= attempted(rs, level)

classification(rs) ==
  IF accuracy_at_least_half(rs, "advanced") /\ accuracy_at_least_half(rs, "intermediate")
  THEN "advanced"
  ELSE IF accuracy_at_least_half(rs, "intermediate")
          /\ accuracy_at_least_half(rs, "beginner")
  THEN "intermediate"
  ELSE "beginner"

graded(level, correct) == [correct |-> correct, level |-> level]

\* beginner 3/3, intermediate 0/2, advanced 0/0
Scenario1 ==
  << graded("beginner", TRUE), graded("beginner", TRUE), graded("beginner", TRUE),
     graded("intermediate", FALSE), graded("intermediate", FALSE) >>

\* beginner 2/2, intermediate 2/3, advanced 0/1
Scenario2 ==
  << graded("beginner", TRUE), graded("beginner", TRUE),
     graded("intermediate", TRUE), graded("intermediate", FALSE),
     graded("intermediate", TRUE), graded("advanced", FALSE) >>

\* beginner 1/1, intermediate 1/1, advanced 1/2
Scenario3 ==
  << graded("beginner", TRUE), graded("intermediate", TRUE),
     graded("advanced", FALSE), graded("advanced", TRUE) >>

\* C7: get_level returns advanced when the accuracies of advanced and of
\* intermediate are both >= 0.5, else intermediate when those of intermediate
\* and of beginner are, else beginner (accuracy = correct/attempted, 0 with
\* nothing attempted); beginner with no results; and the three scenarios give
\* beginner, intermediate and advanced.
C7_GetLevel ==
  /\ last_call.op = "get_level" =>
       /\ ret = PyStr(classification(results))
       /\ results = << >> => ret = PyStr("beginner")
  /\ get_level(Scenario1) = "beginner"
  /\ get_level(Scenario2) = "intermediate"
  /\ get_level(Scenario3) = "advanced"

\* advanced on an accuracy of exactly one half
C7_Witness ==
  /\ last_call.op = "get_level"
  /\ ret = PyStr("advanced")
  /\ attempted(results, "advanced") = 2
  /\ correct_count(results, "advanced") = 1
  /\ attempted(results, "beginner") = 0

is_gap(result) == ~truthy(result, "correct") /\ ~truthy(result, "partial")

is_strength(result) == truthy(result, "correct")

\* The position of the first result with topic t that P selects.
first_with(rs, t, P(_)) ==
  CHOOSE i \in DOMAIN rs :
    /\ P(rs[i]) /\ topic_of(rs[i]) = t
    /\ \A j \in 1..(i - 1) : ~(P(rs[j]) /\ topic_of(rs[j]) = t)

\* lst is the topics of the results P selects, each once, in order of first
\* occurrence.
topics_in_order(lst, rs, P(_)) ==
  /\ \A a, b \in DOMAIN lst : a # b => lst[a] # lst[b]
  /\ {lst[a] : a \in DOMAIN lst}
       = {topic_of(rs[i]) : i \in {j \in DOMAIN rs : P(rs[j]) /\ topic_of(rs[j]) # ""}}
  /\ \A a, b \in DOMAIN lst :
       a < b => first_with(rs, lst[a], P) < first_with(rs, lst[b], P)

\* C8: the knowledge gaps are the topics of the results with correct = false
\* and partial = false, the strengths those of the results with correct = true,
\* each topic once and in order of first occurrence; a topic whose results are
\* all correct is not among the gaps.
C8_GapsAndStrengths ==
  /\ last_call.op = "get_knowledge_gaps" =>
       /\ topics_in_order(ret, results, is_gap)
       /\ \A t \in {topic_of(results[i]) : i \in DOMAIN results} :
            (\A i \in DOMAIN results :
               topic_of(results[i]) = t => truthy(results[i], "correct"))
            => ~list_in(t, ret)
  /\ last_call.op = "get_strengths" => topics_in_order(ret, results, is_strength)

\* two gaps, the first of them met twice, and a partial answer left out
C8_Witness ==
  /\ last_call.op = "get_knowledge_gaps"
  /\ ret = << "dna_basics", "punnett_squares" >>
  /\ Len(results) = 4
  /\ topic_of(results[1]) = "dna_basics" /\ is_gap(results[1])
  /\ topic_of(results[2]) = "mendelian_inheritance" /\ truthy(results[2], "partial")
  /\ topic_of(results[3]) = "dna_basics" /\ is_gap(results[3])
  /\ topic_of(results[4]) = "punnett_squares" /\ is_gap(results[4])

-----------------------------------------------------------------------------
(* The evaluator: C9, C10 (under SpecEval) *)

is_closed(question) == question.answer # OPEN_ENDED

\* The verdict of strategy 1 on the last evaluate call.
simple_verdict ==
  evaluate_simple(last_call.answer, last_call.question.answer,
                  last_call.question.acceptable_answers)

\* C9: evaluate on a closed question calls the judge only when the simple
\* match did not return correct, a client is configured and use_llm is set;
\* when the simple match succeeds its verdict is returned with no judge call;
\* on an open-ended question the judge is never called.
C9_JudgeOnlyWhenNeeded ==
  last_call.op = "evaluate" =>
    /\ judge_calls \in {0, 1}
    /\ ~is_closed(last_call.question) => judge_calls = 0
    /\ is_closed(last_call.question) =>
         /\ judge_calls = 1 =>
              /\ ~simple_verdict.correct
              /\ client # None
              /\ last_call.use_llm
         /\ simple_verdict.correct => (judge_calls = 0 /\ ret = simple_verdict)

C9_Witness ==
  /\ last_call.op = "evaluate"
  /\ is_closed(last_call.question)
  /\ judge_calls = 1
  /\ last_call.response.kind = "json"
  /\ ret = last_call.response.value

JudgeFails == {"raises", "no_json", "bad_json"}

\* C10 as claimed: when the judge is not configured, raises or returns
\* unparseable output, evaluate on a closed question returns the verdict of the
\* simple match: the same correct, partial and feedback.
C10_FallbackIsSimpleVerdict ==
  (/\ last_call.op = "evaluate"
   /\ is_closed(last_call.question)
   /\ client = None \/ last_call.response.kind \in JudgeFails) =>
    /\ ~IsRaised(ret)
    /\ ret = simple_verdict

\* C10 as amended: in those cases evaluate does not raise and returns the
\* correct and partial values of the simple match; the feedback is the simple
\* match's (None) when the judge was not called, and an error message when the
\* judge was called and raised or returned unparseable output.
C10_Fallback ==
  (/\ last_call.op = "evaluate"
   /\ is_closed(last_call.question)
   /\ client = None \/ last_call.response.kind \in JudgeFails) =>
    /\ ~IsRaised(ret)
    /\ ret.correct = simple_verdict.correct
    /\ ret.partial = simple_verdict.partial
    /\ judge_calls = 0 => ret = simple_verdict
    /\ judge_calls = 1 =>
         /\ ~ret.correct /\ ~ret.partial
         /\ ret.feedback \in {PyStr("Evaluation error"),
                              PyStr("Unable to parse evaluation")}
    /\ (client = None /\ ~simple_verdict.correct) => ret.feedback = None

C10_Witness ==
  /\ last_call.op = "evaluate"
  /\ is_closed(last_call.question)
  /\ last_call.response.kind = "raises"
  /\ judge_calls = 1
  /\ ret = [correct |-> FALSE, partial |-> FALSE,
            feedback |-> PyStr("Evaluation error")]

-----------------------------------------------------------------------------
(* The evaluator's matching methods called on their own, as the tests do,   *)
(* and evaluate on the bank's questions.                                    *)

\* "DNA", "dna", " dna", "Dna ", "25 percent", "25%", "".
SimpleStrings ==
  { <<"D","N","A">>,
    <<"d","n","a">>,
    <<" ","d","n","a">>,
    <<"D","n","a"," ">>,
    <<"2","5"," ","p","e","r","c","e","n","t">>,
    <<"2","5","%">>,
    << >> }

\* [], ["dna"], ["25%", "25", "1/4"], [" dna"].
AcceptableLists ==
  { << >>,
    << <<"d","n","a">> >>,
    << <<"2","5","%">>,
       <<"2","5">>,
       <<"1","/","4">> >>,
    << <<" ","d","n","a">> >> }

\* The patterns of the tests, those of diag_002b, ["genes", "traits"], [].
PatternLists ==
  { << <<"i","n","s","t","r","u","c","t","i","o","n">>,
       <<"c","o","d","e">>,
       <<"i","n","f","o","r","m","a","t","i","o","n">>,
       <<"g","e","n","e","s">>,
       <<"t","r","a","i","t","s">> >>,
    << <<"d","o","m","i","n","a","n","t"," ","s","h","o","w","s">>,
       <<"d","o","m","i","n","a","n","t"," ","w","i","n","s">>,
       <<"r","e","c","e","s","s","i","v","e"," ","h","i","d","d","e","n">>,
       <<"r","e","c","e","s","s","i","v","e"," ","n","e","e","d","s"," ","t","w","o">>,
       <<"m","a","s","k","s">> >>,
    << <<"g","e","n","e","s">>,
       <<"t","r","a","i","t","s">> >>,
    << >> }

\* The two answers of the tests ("DNA contains instructions for building
\* proteins and determines traits", "DNA is in cells"), "genes",
\* "Genes and TRAITS", "the code of genes holds information",
\* "one masks the other: dominant wins", "".
PatternAnswers ==
  { <<"D","N","A"," ","c","o","n","t","a","i","n","s"," ","i","n","s","t","r","u","c","t","i","o","n","s"," ","f","o","r"," ","b","u","i","l","d","i","n","g"," ","p","r","o","t","e","i","n","s"," ","a","n","d"," ","d","e","t","e","r","m","i","n","e","s"," ","t","r","a","i","t","s">>,
    <<"D","N","A"," ","i","s"," ","i","n"," ","c","e","l","l","s">>,
    <<"g","e","n","e","s">>,
    <<"G","e","n","e","s"," ","a","n","d"," ","T","R","A","I","T","S">>,
    <<"t","h","e"," ","c","o","d","e"," ","o","f"," ","g","e","n","e","s"," ","h","o","l","d","s"," ","i","n","f","o","r","m","a","t","i","o","n">>,
    <<"o","n","e"," ","m","a","s","k","s"," ","t","h","e"," ","o","t","h","e","r",":"," ","d","o","m","i","n","a","n","t"," ","w","i","n","s">>,
    << >> }

call_evaluate_simple(answer, expected, acceptable) ==
  /\ last_call = NoCall
  /\ last_call' = [op |-> "evaluate_simple", answer |-> answer,
                   expected |-> expected, acceptable |-> acceptable]
  /\ ret' = evaluate_simple(answer, expected, acceptable)
  /\ UNCHANGED << diagVars, judge_calls, travVars, appVars >>

\* evaluate_pattern called once or twice; the second call remembers the
\* first and what it returned.
call_evaluate_pattern(answer, patterns) ==
  /\ \/ last_call = NoCall
     \/ last_call.op = "evaluate_pattern" /\ last_call.previous = None
  /\ last_call' = [op |-> "evaluate_pattern", answer |-> answer,
                   patterns |-> patterns,
                   previous |-> IF last_call = NoCall THEN None
                                ELSE [answer |-> last_call.answer,
                                      patterns |-> last_call.patterns,
                                      ret |-> ret]]
  /\ ret' = evaluate_pattern(answer, patterns)
  /\ UNCHANGED << diagVars, judge_calls, travVars, appVars >>

NextMatch ==
  \/ NextEval
  \/ \E answer \in SimpleStrings, expected \in SimpleStrings,
        acceptable \in AcceptableLists :
          call_evaluate_simple(answer, expected, acceptable)
  \/ \E answer \in PatternAnswers, patterns \in PatternLists :
          call_evaluate_pattern(answer, patterns)

SpecMatch == Init /\ [][NextMatch]_vars

-----------------------------------------------------------------------------
(* The evaluator's matching: C11, C12, C13 (under SpecMatch) *)

\* p occurs in a, letter case ignored.
occurs(p, a) ==
  \E i \in 1..(Len(a) - Len(p) + 1) :
    \A k \in 1..Len(p) : lower_char(a[i + k - 1]) = lower_char(p[k])

RECURSIVE occurring_from(_, _, _)
occurring_from(a, patterns, i) ==
  IF i > Len(patterns) THEN 0
  ELSE (IF occurs(patterns[i], a) THEN 1 ELSE 0)
       + occurring_from(a, patterns, i + 1)

\* How many of the patterns occur in a.
occurring(a, patterns) == occurring_from(a, patterns, 1)

\* C11: evaluate_pattern returns correct (and not partial) when at least 2
\* patterns occur in the answer, partial and not correct when exactly 1
\* occurs, neither when none occurs; evaluate on an open-ended question
\* returns correct exactly when at least 1 pattern occurs, and never returns
\* partial without correct.
C11_OpenEndedGrading ==
  /\ last_call.op = "evaluate_pattern" =>
       LET n == occurring(last_call.answer, last_call.patterns)
       IN  /\ n >= 2 => ret.correct /\ ~ret.partial
           /\ n = 1 => ret.partial /\ ~ret.correct
           /\ n = 0 => ~ret.correct /\ ~ret.partial
  /\ ( /\ last_call.op = "evaluate"
       /\ dict_get(last_call.question, "answer", None) = OPEN_ENDED ) =>
       LET n == occurring(last_call.answer,
                          last_call.question.acceptable_patterns)
       IN  /\ ret.correct <=> n >= 1
           /\ ret.partial => ret.correct

\* evaluate has returned on an open-ended question of which exactly one
\* pattern occurs in the answer: partial, and so correct.
C11_Witness ==
  /\ last_call.op = "evaluate"
  /\ dict_get(last_call.question, "answer", None) = OPEN_ENDED
  /\ occurring(last_call.answer, last_call.question.acceptable_patterns) = 1
  /\ ret.correct
  /\ ret.partial

equal_ignoring_case(a, e) == lower(a) = lower(e)

\* C12: evaluate_simple(x, x, []) is correct for every non-empty x, leading
\* or trailing whitespace included; evaluate_simple(a, e, acc) is correct
\* whenever a and e are equal ignoring case or a contains an element of acc
\* ignoring case.
C12_ExactMatchIdempotence ==
  last_call.op = "evaluate_simple" =>
    /\ ( /\ last_call.answer # << >>
         /\ last_call.expected = last_call.answer
         /\ last_call.acceptable = << >> ) => ret.correct
    /\ ( \/ equal_ignoring_case(last_call.answer, last_call.expected)
         \/ \E i \in DOMAIN last_call.acceptable :
              occurs(last_call.acceptable[i], last_call.answer) )
         => ret.correct

verdict_rank(v) == IF v.correct THEN 2 ELSE IF v.partial THEN 1 ELSE 0

\* C13: of two evaluate_pattern calls with the same patterns, at least 2 of
\* them, the second answer matching one pattern more than the first, the
\* second verdict's rank (none < partial < correct) is not the lower one.
C13_ThresholdMonotone ==
  ( /\ last_call.op = "evaluate_pattern"
    /\ last_call.previous # None
    /\ last_call.previous.patterns = last_call.patterns
    /\ Len(last_call.patterns) >= 2
    /\ occurring(last_call.answer, last_call.patterns)
         = occurring(last_call.previous.answer, last_call.patterns) + 1 )
  => verdict_rank(ret) >= verdict_rank(last_call.previous.ret)

\* Two matches, then three, of the same five patterns: correct both times.
C13_Witness ==
  /\ last_call.op = "evaluate_pattern"
  /\ last_call.previous # None
  /\ last_call.previous.patterns = last_call.patterns
  /\ Len(last_call.patterns) = 5
  /\ occurring(last_call.previous.answer, last_call.patterns) = 2
  /\ occurring(last_call.answer, last_call.patterns) = 3
  /\ verdict_rank(ret) = 2
  /\ verdict_rank(last_call.previous.ret) = 2

-----------------------------------------------------------------------------
(* A Session object used on its own, as tests/test_state.py does.  The      *)
(* caller records exchanges with the roles of its script, over and over;    *)
(* the n-th exchange has the content Message(n).                            *)

MaxExchanges == 22

MaxProblems == 2

RoleScripts ==
  { <<"user", "assistant">>,
    <<"assistant">>,
    <<"user">>,
    <<"system", "user", "assistant">> }

Message(n) == [message |-> n]

\* The role of the caller's n-th exchange.
script_role(n) == script[((n - 1) % Len(script)) + 1]

sessionFrame == << diagVars, judge_calls, travVars, profile, storage, cache,
                   tutor, script >>

call_record_exchange ==
  /\ script # << >>
  /\ calls_made < MaxExchanges
  /\ LET role == script_role(calls_made + 1)
         content == Message(calls_made + 1)
     IN  /\ session' = record_exchange(session, role, content)
         /\ last_call' = [op |-> "record_exchange", role |-> role,
                          content |-> content]
  /\ ret' = None
  /\ calls_made' = calls_made + 1
  /\ UNCHANGED sessionFrame

call_record_problem(problem_id, answer, correct, feedback) ==
  /\ script # << >>
  /\ Len(session.state.problems_attempted) < MaxProblems
  /\ session' = record_problem(session, problem_id, answer, correct, feedback)
  /\ last_call' = [op |-> "record_problem", correct |-> correct]
  /\ ret' = None
  /\ UNCHANGED << sessionFrame, calls_made >>

call_get_summary ==
  /\ script # << >>
  /\ last_call' = [op |-> "get_summary"]
  /\ ret' = get_summary(session)
  /\ UNCHANGED << sessionFrame, calls_made, session >>

call_start_assessment ==
  /\ script # << >>
  /\ session' = start_assessment(session)
  /\ last_call' = [op |-> "start_assessment"]
  /\ ret' = None
  /\ UNCHANGED << sessionFrame, calls_made >>

call_start_teaching(topic) ==
  /\ script # << >>
  /\ session' = start_teaching(session, topic)
  /\ last_call' = [op |-> "start_teaching"]
  /\ ret' = None
  /\ UNCHANGED << sessionFrame, calls_made >>

call_start_practice ==
  /\ script # << >>
  /\ session' = start_practice(session)
  /\ last_call' = [op |-> "start_practice"]
  /\ ret' = None
  /\ UNCHANGED << sessionFrame, calls_made >>

call_start_review ==
  /\ script # << >>
  /\ session' = start_review(session)
  /\ last_call' = [op |-> "start_review"]
  /\ ret' = None
  /\ UNCHANGED << sessionFrame, calls_made >>

\* session = Session("test")
InitSession ==
  /\ client = None
  /\ results = << >>
  /\ current_question = None
  /\ last_call = NoCall
  /\ ret = None
  /\ judge_calls = 0
  /\ trav_id = ""
  /\ trav_trace = << >>
  /\ session = Session("test")
  /\ profile = None
  /\ storage = << >>
  /\ cache = << >>
  /\ tutor = DynamicTutor
  /\ script \in RoleScripts
  /\ calls_made = 0

NextSession ==
  \/ call_record_exchange
  \/ \E correct \in BOOLEAN :
       call_record_problem("ps_001", PyStr("25%"), correct, "feedback")
  \/ call_get_summary
  \/ call_start_assessment
  \/ call_start_teaching(PyStr("punnett_squares"))
  \/ call_start_practice
  \/ call_start_review

SpecSession == InitSession /\ [][NextSession]_vars

-----------------------------------------------------------------------------
(* A LearnerProfile object used on its own, as tests/test_state.py does:    *)
(* topics_in_progress is assigned, then update_mastery is called.  The      *)
(* list holds a set of topics: no topic is in it twice.                     *)

Topics == {"punnett_squares", "dna_basics"}

Scores == {-5, 0, 50, 69, 70, 85, 100, 150}

InProgressLists ==
  { << >>, <<"punnett_squares">>, <<"dna_basics">>,
    <<"punnett_squares", "dna_basics">>, <<"dna_basics", "punnett_squares">> }

profileFrame == << diagVars, judge_calls, travVars, session, storage, cache,
                   tutor, callerVars >>

assign_topics_in_progress(topics) ==
  /\ last_call = NoCall
  /\ profile # None
  /\ profile.knowledge.topics_in_progress = << >>
  /\ topics # << >>
  /\ profile' = [profile EXCEPT !.knowledge.topics_in_progress = topics]
  /\ UNCHANGED << profileFrame, last_call, ret >>

call_update_mastery(topic_id, score) ==
  /\ profile # None
  /\ last_call' = [op |-> "update_mastery", topic_id |-> topic_id,
                   score |-> score,
                   was_in_progress |->
                     list_in(topic_id, profile.knowledge.topics_in_progress)]
  /\ profile' = update_mastery(profile, topic_id, score)
  /\ ret' = None
  /\ UNCHANGED profileFrame

\* profile = LearnerProfile(learner_id="test", name="Test")
InitProfile ==
  /\ client = None
  /\ results = << >>
  /\ current_question = None
  /\ last_call = NoCall
  /\ ret = None
  /\ judge_calls = 0
  /\ trav_id = ""
  /\ trav_trace = << >>
  /\ session = None
  /\ profile = LearnerProfile("test", "Test")
  /\ storage = << >>
  /\ cache = << >>
  /\ tutor = DynamicTutor
  /\ script = << >>
  /\ calls_made = 0

NextProfile ==
  \/ \E topics \in InProgressLists : assign_topics_in_progress(topics)
  \/ \E topic_id \in Topics, score \in Scores :
       call_update_mastery(topic_id, score)

SpecProfile == InitProfile /\ [][NextProfile]_vars

-----------------------------------------------------------------------------
(* The session's bookkeeping: C14, C16 (under SpecSession) *)

\* The entry the caller's n-th record_exchange call recorded.
recorded(n) == [role |-> script_role(n), content |-> Message(n)]

\* C14: after N record_exchange calls the conversation history holds at most
\* 20 entries: the last min(N, 20) entries recorded, in recording order.
C14_HistoryCap ==
  LET history == session.state.conversation_history
      kept == IF calls_made < 20 THEN calls_made ELSE 20
  IN  /\ Len(history) <= 20
      /\ Len(history) = kept
      /\ \A i \in 1..kept : history[i] = recorded(calls_made - kept + i)

\* 22 exchanges recorded: the first two are gone, the third is the oldest.
C14_Witness ==
  /\ calls_made = 22
  /\ Len(session.state.conversation_history) = 20
  /\ session.state.conversation_history[1].content = Message(3)
  /\ session.state.conversation_history[20].content = Message(22)

\* The attempts of a session that were marked correct.
marked_correct(sess) ==
  {i \in 1..Len(sess.state.problems_attempted) :
     sess.state.problems_attempted[i].correct = TRUE}

\* C16: get_summary changes no field of the session; it reports
\* problems_attempted as the number of attempts recorded, problems_correct
\* as the number of those marked correct, and accuracy as their quotient,
\* or None when no problem was attempted.
C16_SummaryIsProjection ==
  [][ last_call'.op = "get_summary" =>
        /\ session' = session
        /\ ret'.problems_attempted = Len(session.state.problems_attempted)
        /\ ret'.problems_correct = Cardinality(marked_correct(session))
        /\ IF Len(session.state.problems_attempted) = 0
           THEN ret'.accuracy = None
           ELSE /\ ret'.accuracy # None
                /\ ret'.accuracy.dividend = ret'.problems_correct
                /\ ret'.accuracy.divisor = ret'.problems_attempted ]_vars

\* One correct and one incorrect attempt: problems_attempted 2, accuracy 0.5.
C16_Witness ==
  /\ last_call.op = "get_summary"
  /\ Cardinality(marked_correct(session)) = 1
  /\ ret.problems_attempted = 2
  /\ ret.problems_correct = 1
  /\ ret.accuracy # None
  /\ 2 * ret.accuracy.dividend = ret.accuracy.divisor

-----------------------------------------------------------------------------
(* The learner's mastery: C17 (under SpecProfile) *)

clamped(score) == IF score < 0 THEN 0 ELSE IF score > 100 THEN 100 ELSE score

\* C17: after update_mastery(topic, score) the value stored for topic is
\* min(100, max(0, score)), every value of topics_mastered is in [0, 100],
\* with score >= 70 the topic is not in topics_in_progress, and the other
\* topics keep their value and their place in topics_in_progress.
C17_MasteryClamping ==
  [][ last_call'.op = "update_mastery" =>
        LET topic == last_call'.topic_id
            score == last_call'.score
            before == profile.knowledge
            after == profile'.knowledge
        IN  /\ topic \in DOMAIN after.topics_mastered
            /\ after.topics_mastered[topic] = clamped(score)
            /\ \A t \in DOMAIN after.topics_mastered :
                 after.topics_mastered[t] \in 0..100
            /\ score >= 70 => ~list_in(topic, after.topics_in_progress)
            /\ \A t \in Topics \ {topic} :
                 /\ t \in DOMAIN after.topics_mastered
                      <=> t \in DOMAIN before.topics_mastered
                 /\ t \in DOMAIN before.topics_mastered =>
                      after.topics_mastered[t] = before.topics_mastered[t]
                 /\ list_in(t, after.topics_in_progress)
                      <=> list_in(t, before.topics_in_progress) ]_vars

\* A topic in progress was given 150: 100 is stored, the topic is no longer
\* in progress, the other topic still is.
C17_Witness ==
  /\ last_call.op = "update_mastery"
  /\ last_call.score = 150
  /\ last_call.was_in_progress
  /\ profile.knowledge.topics_mastered[last_call.topic_id] = 100
  /\ ~list_in(last_call.topic_id, profile.knowledge.topics_in_progress)
  /\ profile.knowledge.topics_in_progress # << >>

-----------------------------------------------------------------------------
(* The tutor as main.py drives it: start_session, then handle_input for     *)
(* every line the learner types, end_session when the learner quits.  The   *)
(* data directory is empty or holds Bob's file, written by an earlier run   *)
(* in which Bob chose the topic "Math".                                     *)

MaxTurns == 3

LearnerIds == {"alice", "bob"}

Names == {None, PyStr("Al")}

\* What client.messages.create does when called.
ApiOutcomes ==
  { [kind |-> "raises", variant |-> 0],
    [kind |-> "unparseable", variant |-> 0],
    [kind |-> "json", variant |-> 1],
    [kind |-> "json", variant |-> 2] }

Math == <<"M","a","t","h">>

UserInputs ==
  { <<"c","o","n","t","i","n","u","e">>,
    <<"1">>,
    <<"c","o","n","t","i","n","u","e","d"," ","f","r","a","c","t","i","o","n","s">>,
    <<" ","M","a","t","h"," ">>,
    <<"4">> }

BobsFile ==
  to_dict([LearnerProfile("bob", "Bob") EXCEPT !.last_topic = PyStr(Math),
                                                 !.total_sessions = 1])

DataDirs == { << >>, storage_save_learner(<< >>, "bob", BobsFile) }

\* The tutor object and what it holds.
Self ==
  [profile |-> profile, session |-> session, storage |-> storage,
   cache |-> cache, t |-> tutor]

flow_state_of(sess) == IF sess = None THEN "none" ELSE sess.state.flow_state

tutorFrame == << diagVars, travVars, script >>

\* The object is as the method left it, also when the method raised.
tutor_becomes(out) ==
  /\ profile' = out.self.profile
  /\ session' = out.self.session
  /\ storage' = out.self.storage
  /\ cache' = out.self.cache
  /\ tutor' = out.self.t
  /\ ret' = out.ret
  /\ judge_calls' = out.calls

call_start_session(learner_id, name) ==
  /\ script = << >>
  /\ calls_made < MaxTurns
  /\ \E out \in {start_session(Self, learner_id, name)} : tutor_becomes(out)
  /\ last_call' = [op |-> "start_session", learner_id |-> learner_id,
                   existed |-> learner_exists(storage, learner_id),
                   raised |-> FALSE]
  /\ calls_made' = calls_made + 1
  /\ UNCHANGED tutorFrame

call_handle_input(user_input, r1, r2) ==
  /\ script = << >>
  /\ calls_made < MaxTurns
  /\ \E out \in {handle_input(Self, user_input, r1, r2)} :
         /\ out.calls < 2 => r2 = r1
         /\ out.calls < 1 => r1 = [kind |-> "raises", variant |-> 0]
         /\ tutor_becomes(out)
         /\ last_call' = [op |-> "handle_input", user_input |-> user_input,
                          flow_state |-> flow_state_of(session),
                          r1 |-> r1, r2 |-> r2,
                          raised |-> out.raised]
  /\ calls_made' = calls_made + 1
  /\ UNCHANGED tutorFrame

call_end_session ==
  /\ script = << >>
  /\ calls_made < MaxTurns
  /\ \E out \in {end_session(Self)} : tutor_becomes(out)
  /\ last_call' = [op |-> "end_session", raised |-> FALSE]
  /\ calls_made' = calls_made + 1
  /\ UNCHANGED tutorFrame

\* tutor = DynamicTutor(data_dir)
InitTutor ==
  /\ client = None
  /\ results = << >>
  /\ current_question = None
  /\ last_call = NoCall
  /\ ret = None
  /\ judge_calls = 0
  /\ trav_id = ""
  /\ trav_trace = << >>
  /\ session = None
  /\ profile = None
  /\ storage \in DataDirs
  /\ cache = << >>
  /\ tutor = DynamicTutor
  /\ script = << >>
  /\ calls_made = 0

NextTutor ==
  \/ \E learner_id \in LearnerIds, name \in Names :
       call_start_session(learner_id, name)
  \/ \E user_input \in UserInputs, r1 \in ApiOutcomes, r2 \in ApiOutcomes :
       call_handle_input(user_input, r1, r2)
  \/ call_end_session

SpecTutor == InitTutor /\ [][NextTutor]_vars

\* The Session on its own or inside the tutor.
SpecApp == (InitSession \/ InitTutor) /\ [][NextSession \/ NextTutor]_vars

-----------------------------------------------------------------------------
(* The counter of assistant turns: C15 (under SpecApp) *)

assistant_calls(n) ==
  Cardinality({k \in 1..n : script_role(k) = "assistant"})

\* C15: questions_asked is the number of record_exchange calls made with the
\* role "assistant": such a call adds one to it, a call with another role
\* leaves it alone, and it keeps counting when the history, full, drops its
\* oldest entries.  A handle_input call that is made with a session and
\* returns adds exactly one to it.
C15_QuestionsAsked ==
  [][ /\ last_call'.op = "record_exchange" =>
           /\ session'.state.questions_asked =
                session.state.questions_asked
                  + (IF last_call'.role = "assistant" THEN 1 ELSE 0)
           /\ session'.state.questions_asked = assistant_calls(calls_made')
      /\ (script # << >> /\ last_call'.op # "record_exchange") =>
           session'.state.questions_asked = session.state.questions_asked
      /\ (last_call'.op = "handle_input" /\ session # None
            /\ ~last_call'.raised) =>
           /\ session' # None
           /\ session'.state.questions_asked =
                session.state.questions_asked + 1 ]_vars

\* Exchanges of several roles were recorded, more than the history holds.
C15_Witness ==
  /\ last_call.op = "record_exchange"
  /\ calls_made > HistoryCap
  /\ Len(session.state.conversation_history) = HistoryCap
  /\ session.state.questions_asked > 0
  /\ session.state.questions_asked < calls_made

-----------------------------------------------------------------------------
(* The session count: C18 (under SpecTutor) *)

\* C18: start_session on a learner who has a file makes the profile's
\* total_sessions one more than the file's, with or without a last topic;
\* start_session on a learner without a file creates a profile with
\* total_sessions 0 or leaves the tutor's profile as it is; no other
\* operation changes the count of the profile, and a file's count changes
\* only to that of the profile saved into it.
C18_TotalSessions ==
  [][ /\ (last_call'.op = "start_session" /\ last_call'.existed) =>
           profile'.total_sessions =
             storage[last_call'.learner_id].total_sessions + 1
      /\ (last_call'.op = "start_session" /\ ~last_call'.existed) =>
           profile'.total_sessions =
             (IF profile = None THEN 0 ELSE profile.total_sessions)
      /\ (last_call'.op # "start_session" /\ profile # None) =>
           /\ profile' # None
           /\ profile'.total_sessions = profile.total_sessions
      /\ \A id \in DOMAIN storage' :
           \/ id \in DOMAIN storage
                /\ storage'[id].total_sessions = storage[id].total_sessions
           \/ id = profile'.learner_id
                /\ storage'[id].total_sessions = profile'.total_sessions ]_vars

\* Bob, whose file counts one session and names a last topic, is back.
C18_Witness ==
  /\ last_call.op = "start_session"
  /\ last_call.existed
  /\ profile.last_topic # None
  /\ profile.total_sessions = 2
  /\ storage["bob"].total_sessions = 1

-----------------------------------------------------------------------------
(* The phases topic_selection and returning: C19, C20 (under SpecTutor) *)

\* What the content generator yields when asked, with the cache as it is
\* before the turn, for the overview of a subject and then for its five
\* assessment questions.
requested_overview(subject) ==
  generate_topic_overview(cache, subject, profile.current_level, last_call'.r1)

requested_questions(subject) ==
  LET overview == requested_overview(subject)
  IN  generate_assessment_questions(
        overview.cache, subject, 5,
        IF overview.calls = 0 THEN last_call'.r1 ELSE last_call'.r2)

\* The turn ends as a turn of topic selection on the given message does.
selects_topic(message) ==
  LET chosen == PyStr(strip(message))
      overview == requested_overview(chosen)
      questions == requested_questions(chosen)
  IN  /\ tutor'.subject = chosen
      /\ profile'.last_topic = chosen
      /\ storage'[profile'.learner_id].last_topic = chosen
      /\ ~overview.raised
      /\ tutor'.topic_overview = overview.ret
      /\ ~questions.raised
      /\ tutor'.assessment_questions = questions.ret
      /\ tutor'.current_question_index = 0
      /\ session'.state.flow_state = "assessment"

\* C19: a handle_input call made in phase topic_selection makes the message,
\* trimmed, the subject and the profile's last topic, asks the content
\* generator for the overview and for 5 assessment questions of that
\* subject, sets the question index to 0 and leaves the session in phase
\* assessment.
C19_TopicSelection ==
  [][ (last_call'.op = "handle_input"
         /\ last_call'.flow_state = "topic_selection") =>
        selects_topic(last_call'.user_input) ]_vars

\* The same for the turns in which every call of the service returned.
C19_WhenServiceAnswers ==
  [][ (last_call'.op = "handle_input"
         /\ last_call'.flow_state = "topic_selection"
         /\ ~requested_overview(PyStr(strip(last_call'.user_input))).raised
         /\ ~requested_questions(PyStr(strip(last_call'.user_input))).raised) =>
        selects_topic(last_call'.user_input) ]_vars

\* The service failed in a turn of topic selection: the call raised and the
\* session is still in phase topic_selection.
C19_Failure ==
  /\ last_call.op = "handle_input"
  /\ last_call.flow_state = "topic_selection"
  /\ last_call.raised
  /\ ret = Raised("APIError")
  /\ session.state.flow_state = "topic_selection"
  /\ profile.last_topic = PyStr(strip(last_call.user_input))


Continue == <<"c","o","n","t","i","n","u","e">>

is_continue(message) == strip(lower(message)) \in {Continue, <<"1">>}

\* The turn ends as a turn of phase returning should: on "continue" or "1"
\* in teaching, the last topic the subject and nothing of an assessment
\* set up, on any other message as a turn of topic selection.
chooses(message) ==
  IF is_continue(message)
  THEN /\ tutor'.subject = profile.last_topic
       /\ profile'.last_topic = profile.last_topic
       /\ session'.state.flow_state = "teaching"
       /\ tutor'.assessment_questions = tutor.assessment_questions
       /\ session'.state.assessment_answers = << >>
  ELSE selects_topic(message)

\* C20: a handle_input call made in phase returning with the message
\* "continue" or "1" keeps the profile's last topic as the subject and
\* leaves the session in phase teaching, without an assessment; with any
\* other message it does what a call in phase topic_selection does with
\* that message: the session is left in phase assessment with the message
\* as the subject.
C20_ReturningChoice ==
  [][ (last_call'.op = "handle_input"
         /\ last_call'.flow_state = "returning") =>
        chooses(last_call'.user_input) ]_vars

\* The same for the turns that returned: it fails as well.
C20_WhenTurnReturns ==
  [][ (last_call'.op = "handle_input"
         /\ last_call'.flow_state = "returning"
         /\ ~last_call'.raised) =>
        chooses(last_call'.user_input) ]_vars

\* The same for the turns that returned and whose message does not hold
\* the word "continue".
C20_WithoutTheWord ==
  [][ (last_call'.op = "handle_input"
         /\ last_call'.flow_state = "returning"
         /\ ~last_call'.raised
         /\ (is_continue(last_call'.user_input)
               \/ ~str_in(Continue, lower(last_call'.user_input)))) =>
        chooses(last_call'.user_input) ]_vars

\* A message that names a new topic and holds the word "continue" was taken
\* for the choice to continue: the session is in teaching on the last topic.
C20_TakenForContinue ==
  /\ last_call.op = "handle_input"
  /\ last_call.flow_state = "returning"
  /\ ~is_continue(last_call.user_input)
  /\ ~last_call.raised
  /\ session.state.flow_state = "teaching"
  /\ tutor.subject = PyStr(Math)
  /\ profile.last_topic = PyStr(Math)

\* The service failed on the choice to continue: the call raised and the
\* session is still in phase returning.
C20_Failure ==
  /\ last_call.op = "handle_input"
  /\ last_call.flow_state = "returning"
  /\ is_continue(last_call.user_input)
  /\ last_call.raised
  /\ session.state.flow_state = "returning"

-----------------------------------------------------------------------------
(* A whole lesson, as main.py runs it for the learner "bob": start_session  *)
(* once, then handle_input for the lines the learner types, which here fit  *)
(* the phase the session is in, and end_session.  The data directory is     *)
(* empty (Bob is new and is assessed), or it holds a file of Bob's written  *)
(* by an earlier run: Bob continues with "Math" and goes on to practice.    *)

MaxLessonTurns == 6

Json(variant) == [kind |-> "json", variant |-> variant]

Unparseable == [kind |-> "unparseable", variant |-> 0]

Raises == [kind |-> "raises", variant |-> 0]

Typed(user_input, r1, r2) == [user_input |-> user_input, r1 |-> r1, r2 |-> r2]

\* Bob's file after practice in earlier runs: six correct answers on "Math".
BobsLaterFile ==
  to_dict([LearnerProfile("bob", "Bob") EXCEPT
             !.last_topic = PyStr(Math),
             !.total_sessions = 2,
             !.knowledge.topics_mastered = dict_set(<< >>, PyStr(Math), 90)])

LessonDataDirs ==
  { << >>,
    storage_save_learner(<< >>, "bob", BobsFile),
    storage_save_learner(<< >>, "bob", BobsLaterFile) }

\* What the learner types in a phase, with what the service does in that
\* turn.
LearnerTurns(flow_state) ==
  CASE flow_state = "topic_selection" ->
         { Typed(Math, Json(1), Json(3)),
           Typed(Math, Unparseable, Json(3)),
           Typed(Math, Json(1), Json(4)),
           Typed(Math, Json(1), Json(2)) }
    [] flow_state = "returning" ->
         { Typed(<<"c","o","n","t","i","n","u","e">>, Json(1), Json(1)),
           Typed(<<"c","o","n","t","i","n","u","e">>, Json(2), Unparseable) }
    [] flow_state = "assessment" ->
         { Typed(answered[1], answered[2], r2) :
             answered \in { << <<"4">>, Json(1) >>, << <<"4">>, Unparseable >>,
                            << <<"n","o">>, Json(2) >>,
                            << <<"n","o">>, Unparseable >>,
                            << <<"4">>, Raises >> },
             r2 \in { Json(1), Unparseable, Raises } }
         \cup { Typed(<<"y","e","s">>, Json(1), Json(1)),
                Typed(<<"b","e","g","i","n">>, Unparseable, Unparseable) }
    [] flow_state = "teaching" ->
         { Typed(<<"p","r","a","c","t","i","c","e">>, Json(1), Json(1)),
           Typed(<<"p","r","a","c","t","i","c","e">>, Unparseable, Unparseable),
           Typed(<<"p","r","a","c","t","i","c","e">>, Json(2), Json(2)),
           Typed(<<"n","e","x","t">>, Json(1), Json(1)),
           Typed(<<"w","h","y">>, Json(1), Json(1)) }
    [] flow_state = "practice" ->
         { Typed(<<"h","i","n","t">>, Raises, Raises),
           Typed(<<"s","k","i","p">>, Raises, Raises),
           Typed(<<"4">>, Json(1), Json(1)),
           Typed(<<"4">>, Json(2), Json(2)),
           Typed(<<"n","o">>, Unparseable, Unparseable),
           Typed(<<"4">>, Raises, Raises) }
    [] OTHER -> { Typed(Math, Json(1), Json(3)), Typed(Math, Raises, Raises) }

lesson_start_session ==
  /\ script = << >>
  /\ session = None
  /\ calls_made < MaxLessonTurns
  /\ \E out \in {start_session(Self, "bob", None)} : tutor_becomes(out)
  /\ last_call' = [op |-> "start_session", learner_id |-> "bob",
                   existed |-> learner_exists(storage, "bob"),
                   raised |-> FALSE]
  /\ calls_made' = calls_made + 1
  /\ UNCHANGED tutorFrame

lesson_handle_input(typed) ==
  /\ script = << >>
  /\ session # None
  /\ calls_made < MaxLessonTurns
  /\ \E out \in {handle_input(Self, typed.user_input, typed.r1, typed.r2)} :
         /\ out.calls < 2 => typed.r2 \in {typed.r1, Json(1)}
         /\ tutor_becomes(out)
         /\ last_call' = [op |-> "handle_input",
                          user_input |-> typed.user_input,
                          flow_state |-> flow_state_of(session),
                          r1 |-> typed.r1, r2 |-> typed.r2,
                          raised |-> out.raised]
  /\ calls_made' = calls_made + 1
  /\ UNCHANGED tutorFrame

lesson_end_session ==
  /\ script = << >>
  /\ session # None
  /\ calls_made < MaxLessonTurns
  /\ \E out \in {end_session(Self)} : tutor_becomes(out)
  /\ last_call' = [op |-> "end_session", raised |-> FALSE]
  /\ calls_made' = calls_made + 1
  /\ UNCHANGED tutorFrame

InitLesson ==
  /\ client = None
  /\ results = << >>
  /\ current_question = None
  /\ last_call = NoCall
  /\ ret = None
  /\ judge_calls = 0
  /\ trav_id = ""
  /\ trav_trace = << >>
  /\ session = None
  /\ profile = None
  /\ storage \in LessonDataDirs
  /\ cache = << >>
  /\ tutor = DynamicTutor
  /\ script = << >>
  /\ calls_made = 0

NextLesson ==
  \/ lesson_start_session
  \/ \E typed \in LearnerTurns(flow_state_of(session)) :
       lesson_handle_input(typed)
  \/ lesson_end_session

SpecLesson == InitLesson /\ [][NextLesson]_vars

-----------------------------------------------------------------------------
(* The assessment phase: C21, C22 (under SpecLesson) *)

in_assessment ==
  /\ last_call'.op = "handle_input"
  /\ last_call'.flow_state = "assessment"

questions_left ==
  tutor.current_question_index < Len(tutor.assessment_questions)

last_question ==
  tutor.current_question_index + 1 = Len(tutor.assessment_questions)

affirmative(message) ==
  strip(lower(message)) \in
    { <<"y","e","s">>, <<"r","e","a","d","y">>, <<"o","k">>,
      <<"s","u","r","e">>, <<"l","e","t","'","s"," ","g","o">>,
      <<"s","t","a","r","t">>, <<"b","e","g","i","n">> }

stored_level == storage[profile.learner_id].current_level

\* Answers matched to questions by index: is a question of the level
\* answered correctly?
answered_correctly(questions, answers, level) ==
  \E i \in 1..Len(questions) :
    /\ i <= Len(answers)
    /\ questions[i].level = level
    /\ answers[i].correct

level_rule(questions, answers) ==
  IF answered_correctly(questions, answers, "advanced")
     /\ answered_correctly(questions, answers, "intermediate")
  THEN "advanced"
  ELSE IF answered_correctly(questions, answers, "intermediate")
          /\ answered_correctly(questions, answers, "beginner")
  THEN "intermediate"
  ELSE "beginner"

\* What a turn in phase assessment does, by the claim.
assessment_turn ==
  IF questions_left
  THEN /\ Len(session'.state.assessment_answers) =
            Len(session.state.assessment_answers) + 1
       /\ tutor'.current_question_index = tutor.current_question_index + 1
       /\ IF last_question
          THEN /\ profile'.current_level =
                    level_rule(tutor.assessment_questions,
                               session'.state.assessment_answers)
               /\ stored_level' = profile'.current_level
          ELSE /\ profile'.current_level = profile.current_level
               /\ stored_level' = stored_level
       /\ session'.state.flow_state = "assessment"
  ELSE /\ session'.state.assessment_answers = session.state.assessment_answers
       /\ tutor'.current_question_index = tutor.current_question_index
       /\ profile'.current_level = profile.current_level
       /\ stored_level' = stored_level
       /\ session'.state.flow_state =
            (IF affirmative(last_call'.user_input)
             THEN "teaching" ELSE "assessment")

\* C21: in phase assessment, while questions are left a learner message
\* records exactly one assessment answer and advances the question index by
\* one; the level is computed and saved on the turn that answers the last
\* question and on no other turn; afterwards a message records no answer
\* and changes neither the index nor the level, and the session moves to
\* teaching exactly on an affirmative reply.
C21_AssessmentProgress ==
  [][ in_assessment => assessment_turn ]_vars

\* Every question asked has one of the three levels.
levels_known ==
  \A i \in DOMAIN tutor.assessment_questions :
    tutor.assessment_questions[i].level \in Levels

\* The same for the turns in which the service judged the answer, if one
\* was due, and the questions have the levels the rule knows.
C21_WhenAnswerIsJudged ==
  [][ (in_assessment /\ levels_known
         /\ (questions_left => last_call'.r1 # Raises)) =>
        assessment_turn ]_vars

\* The service failed on an answer: nothing was recorded for the message.
C21_AnswerLost ==
  /\ last_call.op = "handle_input"
  /\ last_call.flow_state = "assessment"
  /\ last_call.raised
  /\ ret = Raised("APIError")
  /\ session.state.assessment_answers = << >>
  /\ tutor.current_question_index = 0
  /\ Len(tutor.assessment_questions) = 3

\* C22: the turn that answers the last assessment question stores in the
\* profile, and saves to storage, the level "advanced" when an advanced and
\* an intermediate question were answered correctly, else "intermediate"
\* when an intermediate and a beginner question were, else "beginner",
\* answers matched to questions by index.
C22_LevelRule ==
  [][ (in_assessment /\ questions_left /\ last_question
         /\ Len(session'.state.assessment_answers) =
              Len(tutor.assessment_questions)) =>
        /\ profile'.current_level =
             level_rule(tutor.assessment_questions,
                        session'.state.assessment_answers)
        /\ stored_level' = profile'.current_level ]_vars

\* The same when every question has one of the three levels.
C22_WhenLevelsKnown ==
  [][ (in_assessment /\ questions_left /\ last_question /\ levels_known
         /\ Len(session'.state.assessment_answers) =
              Len(tutor.assessment_questions)) =>
        /\ profile'.current_level =
             level_rule(tutor.assessment_questions,
                        session'.state.assessment_answers)
        /\ stored_level' = profile'.current_level ]_vars

\* An intermediate and an advanced question were answered correctly, the
\* third question has the level "expert": the turn raised KeyError and the
\* level is still "beginner".
C22_LevelNotStored ==
  /\ last_call.op = "handle_input"
  /\ last_call.flow_state = "assessment"
  /\ ret = Raised("KeyError")
  /\ Len(session.state.assessment_answers) = 3
  /\ session.state.assessment_answers[1].correct
  /\ session.state.assessment_answers[2].correct
  /\ profile.current_level = "beginner"

\* Each level is reached by an assessment.
C22_Advanced ==
  /\ last_call.op = "handle_input"
  /\ last_call.flow_state = "assessment"
  /\ profile.current_level = "advanced"
  /\ stored_level = "advanced"

C22_Intermediate ==
  /\ last_call.op = "handle_input"
  /\ last_call.flow_state = "assessment"
  /\ profile.current_level = "intermediate"
  /\ stored_level = "intermediate"

-----------------------------------------------------------------------------
(* The practice phase: C23, C24, C25 (under SpecLesson) *)

\* A turn in phase practice with a problem at hand.
in_practice ==
  /\ last_call'.op = "handle_input"
  /\ last_call'.flow_state = "practice"
  /\ tutor.current_problem # None

asks_hint(message) == strip(lower(message)) \in HintWords

gives_up(message) == strip(lower(message)) \in GiveUpWords

\* The verdict of the content generator on the message as an answer to the
\* problem at hand.
judgement(message) ==
  evaluate_answer(cache, dict_get(tutor.current_problem, "question", << >>),
                  dict_get(tutor.current_problem, "answer", << >>), message,
                  tutor.subject, last_call'.r1)

judged(message, verdict) ==
  /\ ~asks_hint(message)
  /\ ~gives_up(message)
  /\ ~judgement(message).raised
  /\ judgement(message).ret.correct = verdict

mastery(p, subject) == dict_get(p.knowledge.topics_mastered, subject, 0)

\* The tutor is at the problem after the one it was at, if there is one.
advances ==
  /\ tutor'.current_problem_index = tutor.current_problem_index + 1
  /\ tutor'.current_problem_index < Len(tutor.practice_problems) =>
       tutor'.current_problem =
         tutor.practice_problems[tutor'.current_problem_index + 1]

\* C23: in phase practice an answer judged correct raises the mastery score
\* of the subject by 15, kept within 0..100, saves the profile and advances
\* to the next problem; an answer judged incorrect leaves the problem, the
\* problem index and every mastery score as they are; a give-up token is
\* answered with the answer of the problem and advances, every mastery
\* score as it is.
C23_PracticeAnswer ==
  [][ in_practice =>
        LET message == last_call'.user_input
        IN  /\ judged(message, TRUE) =>
                 /\ mastery(profile', tutor.subject) =
                      min(100, max(0, mastery(profile, tutor.subject) + 15))
                 /\ \A subject \in DOMAIN profile'.knowledge.topics_mastered :
                      subject # tutor.subject =>
                        /\ subject \in DOMAIN profile.knowledge.topics_mastered
                        /\ mastery(profile', subject) = mastery(profile, subject)
                 /\ storage'[profile'.learner_id] = to_dict(profile')
                 /\ advances
            /\ judged(message, FALSE) =>
                 /\ tutor'.current_problem = tutor.current_problem
                 /\ tutor'.current_problem_index = tutor.current_problem_index
                 /\ profile'.knowledge.topics_mastered =
                      profile.knowledge.topics_mastered
            /\ gives_up(message) =>
                 /\ ret'.reply = "the_answer_is"
                 /\ ret'.answer = tutor.current_problem.answer
                 /\ advances
                 /\ profile'.knowledge.topics_mastered =
                      profile.knowledge.topics_mastered ]_vars

\* A correct answer took the mastery of "Math" from 90 to 100, not 105, and
\* the tutor to the second problem.
C23_Witness ==
  /\ last_call.op = "handle_input"
  /\ last_call.flow_state = "practice"
  /\ ~last_call.raised
  /\ ret.reply = "that_is_correct"
  /\ mastery(profile, tutor.subject) = 100
  /\ storage["bob"].knowledge.topics_mastered[PyStr(Math)] = 100
  /\ tutor.current_problem_index = 1
  /\ tutor.current_problem.id = "p2"

\* Mastery rose by 15 from nothing.
C23_FirstCorrect ==
  /\ last_call.op = "handle_input"
  /\ last_call.flow_state = "practice"
  /\ ~last_call.raised
  /\ ret.reply = "that_is_correct"
  /\ mastery(profile, tutor.subject) = 15

\* An answer was judged incorrect, the learner then gave up.
C23_GaveUp ==
  /\ session # None
  /\ last_call.op = "handle_input"
  /\ ~last_call.raised
  /\ ret.reply = "the_answer_is"
  /\ Len(session.state.problems_attempted) = 2
  /\ ~session.state.problems_attempted[1].correct
  /\ tutor.current_problem_index = 1


\* C24: in phase practice a hint request is answered as SocraticEngine's
\* generate_hint answers it: with the next predefined hint of the problem
\* that was not given yet, in order, and, once they are used up, with a hint
\* obtained by one call of the external service.
C24_HintRequest ==
  [][ (in_practice /\ asks_hint(last_call'.user_input)) =>
        \E hint \in { generate_hint(cache, tutor.current_problem,
                                    last_call'.user_input, tutor.hints_given,
                                    last_call'.r1) } :
          /\ judge_calls' = hint.calls
          /\ last_call'.raised = hint.raised
          /\ ~hint.raised =>
               /\ ret'.reply = "hint"
               /\ ret'.hint = hint.ret.hint ]_vars

\* The part that holds: while predefined hints are left, a hint request is
\* answered with the next of them, in order, without a call of the service.
C24_PredefinedHints ==
  [][ (in_practice /\ asks_hint(last_call'.user_input)
         /\ tutor.hints_given
              < Len(dict_get(tutor.current_problem, "hints", << >>))) =>
        /\ ret'.reply = "hint"
        /\ ret'.hint = tutor.current_problem.hints[tutor.hints_given + 1]
        /\ tutor'.hints_given = tutor.hints_given + 1
        /\ tutor'.current_problem = tutor.current_problem
        /\ judge_calls' = 0 ]_vars

\* The second predefined hint was given after the first.
C24_SecondHint ==
  /\ session # None
  /\ last_call.op = "handle_input"
  /\ last_call.flow_state = "practice"
  /\ ~last_call.raised
  /\ ret.reply = "hint"
  /\ tutor.hints_given = 2
  /\ ret.hint = tutor.current_problem.hints[2]

\* A hint request after the last predefined hint: a fixed reply, no call of
\* the service, no hint.
C24_NoSynthesizedHint ==
  /\ session # None
  /\ last_call.op = "handle_input"
  /\ last_call.flow_state = "practice"
  /\ asks_hint(last_call.user_input)
  /\ ret = Reply("all_hints_given")
  /\ tutor.hints_given = Len(tutor.current_problem.hints)
  /\ judge_calls = 0


\* The last problem of the list was left behind.
exhausted == tutor.current_problem_index >= Len(tutor.practice_problems)

\* C25: once the list of practice problems is exhausted, a further message
\* in phase practice records no attempt, changes no mastery score and does
\* not advance the problem index.
C25_AfterLastProblem ==
  [][ (in_practice /\ exhausted) =>
        /\ session'.state.problems_attempted = session.state.problems_attempted
        /\ profile'.knowledge.topics_mastered = profile.knowledge.topics_mastered
        /\ tutor'.current_problem_index = tutor.current_problem_index ]_vars

\* The part that holds: after the last problem a hint request changes none
\* of the three.
C25_HintAfterLastProblem ==
  [][ (in_practice /\ exhausted /\ asks_hint(last_call'.user_input)) =>
        /\ session'.state.problems_attempted = session.state.problems_attempted
        /\ profile'.knowledge.topics_mastered = profile.knowledge.topics_mastered
        /\ tutor'.current_problem_index = tutor.current_problem_index ]_vars

\* After the last problem the learner gave up once more: a further attempt
\* on the last problem is recorded and the index is past the end.
C25_IndexPastTheEnd ==
  /\ session # None
  /\ last_call.op = "handle_input"
  /\ last_call.flow_state = "practice"
  /\ tutor.current_problem_index > Len(tutor.practice_problems)
  /\ Len(session.state.problems_attempted) > Len(tutor.practice_problems)

\* After the last problem a correct answer to it raised the mastery again.
C25_MasteryAgain ==
  /\ session # None
  /\ last_call.op = "handle_input"
  /\ last_call.flow_state = "practice"
  /\ ~last_call.raised
  /\ ret.reply = "that_is_correct"
  /\ tutor.current_problem_index > Len(tutor.practice_problems)
  /\ mastery(profile, tutor.subject) = 30

\* A hint was asked after the last problem.
C25_HintAsked ==
  /\ session # None
  /\ last_call.op = "handle_input"
  /\ last_call.flow_state = "practice"
  /\ asks_hint(last_call.user_input)
  /\ tutor.current_problem # None
  /\ tutor.current_problem_index >= Len(tutor.practice_problems)

-----------------------------------------------------------------------------
(* Ending a session: C26 (under SpecLesson), C27 and C28 (under SpecTutor) *)

\* C26: end_session with a session, in whatever phase, appends exactly one
\* summary, that of the session, to the profile's session summaries, saves
\* the profile, and reports an accuracy figure exactly when at least one
\* practice problem was attempted.
C26_EndSession ==
  [][ (last_call'.op = "end_session" /\ session # None /\ profile # None) =>
        /\ profile'.progress.session_summaries =
             Append(profile.progress.session_summaries, get_summary(session))
        /\ storage'[profile'.learner_id] = to_dict(profile')
        /\ ret'.reply = "session_report"
        /\ ret'.with_accuracy <=> Len(session.state.problems_attempted) > 0
        /\ judge_calls' = 0 ]_vars

\* A session ended in phase practice after an attempt: one summary, saved,
\* and the report has the accuracy figure.
C26_Witness ==
  /\ session # None
  /\ last_call.op = "end_session"
  /\ session.state.flow_state = "practice"
  /\ Len(session.state.problems_attempted) >= 1
  /\ ret.with_accuracy
  /\ Len(profile.progress.session_summaries) = 1
  /\ storage["bob"].progress.session_summaries =
       profile.progress.session_summaries

\* A session ended in phase assessment: no attempt, no accuracy figure.
C26_InAssessment ==
  /\ session # None
  /\ last_call.op = "end_session"
  /\ session.state.flow_state = "assessment"
  /\ ~ret.with_accuracy
  /\ Len(profile.progress.session_summaries) = 1

\* A session ended right after start_session, in phase topic_selection or
\* returning.
C26_AtOnce ==
  /\ session # None
  /\ last_call.op = "end_session"
  /\ session.state.flow_state \in {"topic_selection", "returning"}
  /\ session.state.problems_attempted = << >>
  /\ ~ret.with_accuracy


\* The tutor's variables as a call leaves them.
untouched ==
  /\ session' = session
  /\ profile' = profile
  /\ storage' = storage
  /\ cache' = cache
  /\ tutor' = tutor

\* The last call was an end_session that found a session to end.
session_ended == last_call.op = "end_session" /\ session # None

\* C27: after end_session has ended a session there is no active session: a
\* handle_input that follows is answered with the no-active-session message
\* and changes nothing, and an end_session that follows adds no second
\* summary.
C27_SessionDestroyed ==
  [][ session_ended =>
        /\ last_call'.op = "handle_input" =>
             /\ ret' \in { Reply("Please start a session first."),
                           Reply("No active session to end.") }
             /\ judge_calls' = 0
             /\ untouched
        /\ last_call'.op = "end_session" =>
             /\ ret' = Reply("No active session to end.")
             /\ untouched ]_vars

\* After end_session the turn went on where the session was: "continue" in
\* phase returning took the ended session to teaching with two calls of the
\* service.
C27_TurnAfterEnd ==
  /\ session # None
  /\ last_call.op = "handle_input"
  /\ last_call.flow_state = "returning"
  /\ session.state.flow_state = "teaching"
  /\ Len(profile.progress.session_summaries) = 1
  /\ judge_calls = 2

\* A second end_session added a second summary of the same session.
C27_SecondSummary ==
  /\ session # None
  /\ last_call.op = "end_session"
  /\ Len(profile.progress.session_summaries) = 2
  /\ profile.progress.session_summaries[1] =
       profile.progress.session_summaries[2]
  /\ storage[profile.learner_id].progress.session_summaries =
       profile.progress.session_summaries

\* C28: before start_session, handle_input returns the precondition message
\* and end_session the no-active-session message; neither raises, creates a
\* session, changes a profile, calls the service or writes to storage.
C28_BeforeStart ==
  [][ (session = None /\ profile = None) =>
        /\ last_call'.op = "handle_input" =>
             /\ ret' = Reply("Please start a session first.")
             /\ ~last_call'.raised
             /\ judge_calls' = 0
             /\ untouched
        /\ last_call'.op = "end_session" =>
             /\ ret' = Reply("No active session to end.")
             /\ ~last_call'.raised
             /\ judge_calls' = 0
             /\ untouched ]_vars

\* Both were called before start_session, with a learner's file in the
\* data directory that stayed as it was.
C28_Witness ==
  /\ session = None
  /\ profile = None
  /\ calls_made = 2
  /\ last_call.op = "end_session"
  /\ ret = Reply("No active session to end.")
  /\ storage = [l \in {"bob"} |-> BobsFile]

\* handle_input came first.
C28_HandleInput ==
  /\ session = None
  /\ profile = None
  /\ calls_made = 1
  /\ last_call.op = "handle_input"
  /\ ret = Reply("Please start a session first.")

-----------------------------------------------------------------------------
(* A phase without a handler of its own: C29 (under SpecPhase).  The tutor  *)
(* itself sets no phase but the five it handles; the caller that holds the  *)
(* tutor reaches the session and Session.start_review puts it in "review". *)

MaxReviewAt == 2

Phases == {"topic_selection", "returning", "assessment", "teaching", "practice"}

\* tutor.session.start_review()
lesson_start_review ==
  /\ script = << >>
  /\ session # None
  /\ session.state.flow_state \in Phases
  /\ calls_made <= MaxReviewAt
  /\ session' = start_review(session)
  /\ last_call' = [op |-> "start_review", raised |-> FALSE]
  /\ UNCHANGED <<profile, storage, cache, tutor, ret, judge_calls, calls_made>>
  /\ UNCHANGED tutorFrame

NextPhase ==
  \/ NextLesson
  \/ lesson_start_review

SpecPhase == InitLesson /\ [][NextPhase]_vars

\* A turn in a phase that is none of the five.
in_unknown_phase ==
  /\ last_call'.op = "handle_input"
  /\ session.state.flow_state \notin Phases

\* C29: a handle_input call made in a phase that is none of
\* topic_selection, returning, assessment, teaching, practice is handled as
\* a turn of topic selection is, and leaves the session in phase assessment.
C29_UnknownPhase ==
  [][ in_unknown_phase => selects_topic(last_call'.user_input) ]_vars

\* The same for the turns in which every call of the service returned.
C29_WhenServiceAnswers ==
  [][ (in_unknown_phase
         /\ ~requested_overview(PyStr(strip(last_call'.user_input))).raised
         /\ ~requested_questions(PyStr(strip(last_call'.user_input))).raised) =>
        selects_topic(last_call'.user_input) ]_vars

\* A turn in phase review selected the topic and left the session in phase
\* assessment.
C29_ToAssessment ==
  /\ session # None
  /\ last_call.op = "handle_input"
  /\ last_call.flow_state = "review"
  /\ ~last_call.raised
  /\ session.state.flow_state = "assessment"
  /\ tutor.subject = PyStr(Math)
  /\ Len(tutor.assessment_questions) = 3

\* The service failed in a turn in phase review: the call raised and the
\* session is still in phase review.
C29_StillInReview ==
  /\ session # None
  /\ last_call.op = "handle_input"
  /\ last_call.flow_state = "review"
  /\ last_call.raised
  /\ ret = Raised("APIError")
  /\ session.state.flow_state = "review"

-----------------------------------------------------------------------------
(* Calls of the external service in one turn: C30 (under SpecLesson) *)

\* The turn goes to _handle_topic_selection: from phase topic_selection,
\* from a phase without a handler, or from phase returning with a message
\* that is not taken for the choice to continue.
handled_as_topic_selection ==
  \/ session.state.flow_state \notin Phases
  \/ session.state.flow_state = "topic_selection"
  \/ /\ session.state.flow_state = "returning"
     /\ ~str_in(Continue, strip(lower(last_call'.user_input)))
     /\ strip(lower(last_call'.user_input)) # <<"1">>

\* The turn goes to _start_practice: from phase teaching on a message that
\* holds a practice word, or from phase practice without a problem at hand.
starts_practice ==
  \/ /\ session.state.flow_state = "teaching"
     /\ \E word \in PracticeWords :
          str_in(word, strip(lower(last_call'.user_input)))
  \/ /\ session.state.flow_state = "practice"
     /\ tutor.current_problem = None

\* C30: a handle_input call issues at most one call of the external
\* service, except a turn handled as topic_selection and a turn that starts
\* practice, which issue at most two; the turn that answers the last
\* assessment question and the turn that chooses "continue" in phase
\* returning are among those that issue at most one.
C30_CallsPerTurn ==
  [][ last_call'.op = "handle_input" =>
        judge_calls' <= (IF handled_as_topic_selection \/ starts_practice
                         THEN 2 ELSE 1) ]_vars

\* The part that holds: no turn issues more than two calls, and a turn in
\* phase teaching or practice, or in phase assessment that does not answer
\* the last question, issues at most one.
C30_AtMostTwo ==
  [][ last_call'.op = "handle_input" =>
        /\ judge_calls' <= 2
        /\ (\/ session.state.flow_state \in {"teaching", "practice"}
            \/ session.state.flow_state = "assessment" /\ ~last_question) =>
             judge_calls' <= 1 ]_vars

\* "continue" in phase returning issued two calls: the overview and the
\* lesson.
C30_ContinueCallsTwice ==
  /\ session # None
  /\ last_call.op = "handle_input"
  /\ last_call.flow_state = "returning"
  /\ is_continue(last_call.user_input)
  /\ ~last_call.raised
  /\ session.state.flow_state = "teaching"
  /\ judge_calls = 2

\* The turn that answered the last assessment question issued two calls:
\* the verdict on the answer and the overview for the new level.
C30_LastAnswerCallsTwice ==
  /\ session # None
  /\ last_call.op = "handle_input"
  /\ last_call.flow_state = "assessment"
  /\ ~last_call.raised
  /\ tutor.current_question_index = Len(tutor.assessment_questions)
  /\ Len(session.state.assessment_answers) = Len(tutor.assessment_questions)
  /\ profile.current_level = "intermediate"
  /\ judge_calls = 2

\* A turn of topic selection issued two calls.
C30_TopicSelectionCallsTwice ==
  /\ session # None
  /\ last_call.op = "handle_input"
  /\ last_call.flow_state = "topic_selection"
  /\ judge_calls = 2

\* A turn that started practice issued one call.
C30_PracticeStart ==
  /\ session # None
  /\ last_call.op = "handle_input"
  /\ last_call.flow_state = "teaching"
  /\ session.state.flow_state = "practice"
  /\ judge_calls = 1

-----------------------------------------------------------------------------
(* ContentGenerator.evaluate_answer called on its own: C31 (under          *)
(* SpecJudge)                                                               *)

\* The expected answers: "open_ended", "Open_Ended", "4", "DNA", "".
ExpectedAnswers ==
  { OPEN_ENDED,
    <<"O","p","e","n","_","E","n","d","e","d">>,
    <<"4">>,
    <<"D","N","A">>,
    << >> }

\* The learner's answers: "4", "It is 4!", "dna", "no", "", ten letters,
\* eleven letters, and two letters in ten blanks.
JudgedAnswers ==
  { <<"4">>,
    <<"I","t"," ","i","s"," ","4","!">>,
    <<"d","n","a">>,
    <<"n","o">>,
    << >>,
    <<"a","b","c","d","e","f","g","h","i","j">>,
    <<"a","b","c","d","e","f","g","h","i","j","k">>,
    <<" "," "," "," "," ","o","k"," "," "," "," "," ">> }

call_evaluate_answer(expected, learner_answer, r) ==
  /\ last_call = NoCall
  /\ \E out \in { evaluate_answer(cache, << >>, expected, learner_answer,
                                  PyStr(Math), r) } :
       /\ ret' = out.ret
       /\ judge_calls' = out.calls
       /\ cache' = out.cache
       /\ last_call' = [op |-> "evaluate_answer", expected |-> expected,
                        learner_answer |-> learner_answer, r |-> r,
                        raised |-> out.raised]
  /\ UNCHANGED << diagVars, travVars, session, profile, storage, tutor,
                  callerVars >>

NextJudge ==
  \E expected \in ExpectedAnswers, learner_answer \in JudgedAnswers,
     r \in ApiOutcomes :
       call_evaluate_answer(expected, learner_answer, r)

SpecJudge == InitTutor /\ [][NextJudge]_vars

\* The heuristic verdict on an answer: for an open-ended question (expected
\* is "open_ended" in whatever letter case) correct when the trimmed answer
\* has more than 10 characters and partial when not; for a closed one
\* correct when the answer is, or holds, the expected answer, letter case
\* and outer whitespace set aside, and never partial.
heuristic_verdict(expected, learner_answer) ==
  IF lower(expected) = OPEN_ENDED
  THEN [correct |-> Len(strip(learner_answer)) > 10,
        partial |-> ~(Len(strip(learner_answer)) > 10)]
  ELSE [correct |-> str_in(strip(lower(expected)), strip(lower(learner_answer))),
        partial |-> FALSE]

\* C31: evaluate_answer never raises, whether the call of the service
\* returns well-formed output, returns unparseable output or fails; on
\* unparseable output it returns the heuristic verdict.
C31_NeverRaises ==
  [][ last_call'.op = "evaluate_answer" =>
        /\ ~last_call'.raised
        /\ last_call'.r.kind = "unparseable" =>
             /\ ret'.correct =
                  heuristic_verdict(last_call'.expected,
                                    last_call'.learner_answer).correct
             /\ ret'.partial =
                  heuristic_verdict(last_call'.expected,
                                    last_call'.learner_answer).partial ]_vars

\* The part that holds: when the call of the service returns,
\* evaluate_answer returns a verdict, and on unparseable output the
\* heuristic one.
C31_WhenServiceAnswers ==
  [][ (last_call'.op = "evaluate_answer"
         /\ last_call'.r.kind # "raises") =>
        /\ ~last_call'.raised
        /\ ret'.correct \in BOOLEAN
        /\ last_call'.r.kind = "unparseable" =>
             /\ ret'.correct =
                  heuristic_verdict(last_call'.expected,
                                    last_call'.learner_answer).correct
             /\ ret'.partial =
                  heuristic_verdict(last_call'.expected,
                                    last_call'.learner_answer).partial ]_vars

\* The call of the service failed and evaluate_answer raised.
C31_Raised ==
  /\ last_call.op = "evaluate_answer"
  /\ last_call.r.kind = "raises"
  /\ last_call.raised
  /\ ret = Raised("APIError")
  /\ judge_calls = 1

\* Unparseable output on an open-ended question: two letters in ten blanks
\* are partial, not correct.
C31_OpenEndedShort ==
  /\ last_call.op = "evaluate_answer"
  /\ last_call.r.kind = "unparseable"
  /\ last_call.expected = OPEN_ENDED
  /\ Len(last_call.learner_answer) > 10
  /\ ~ret.correct
  /\ ret.partial

\* Unparseable output on a closed question: "It is 4!" holds the expected
\* "4" and is correct.
C31_ClosedContains ==
  /\ last_call.op = "evaluate_answer"
  /\ last_call.r.kind = "unparseable"
  /\ last_call.expected = <<"4">>
  /\ last_call.learner_answer # <<"4">>
  /\ ret.correct
  /\ ~ret.partial

-----------------------------------------------------------------------------
(* No turn is fatal: C32 (under SpecLesson) *)

\* The last entry of the conversation history is the tutor's reply.
assistant_turn_recorded ==
  /\ session'.state.conversation_history # << >>
  /\ session'.state.conversation_history[
       Len(session'.state.conversation_history)] =
         [role |-> "assistant", content |-> ret']

\* C32: with an active session handle_input returns a response and records
\* the assistant turn, in every phase, on every message and on every
\* payload of the content generator; it never raises.
C32_NeverFatal ==
  [][ (last_call'.op = "handle_input" /\ session # None) =>
        /\ ~last_call'.raised
        /\ assistant_turn_recorded ]_vars

\* The part that holds: a turn that returns has recorded the assistant turn.
C32_WhenTurnReturns ==
  [][ (last_call'.op = "handle_input" /\ session # None
         /\ ~last_call'.raised) =>
        assistant_turn_recorded ]_vars

\* The service returned an empty list of questions: topic selection raised
\* IndexError with the session already in phase assessment, and the last
\* entry of the history is the learner's message.
C32_EmptyQuestionList ==
  /\ session # None
  /\ last_call.op = "handle_input"
  /\ last_call.flow_state = "topic_selection"
  /\ last_call.r1.kind = "json"
  /\ last_call.r2.kind = "json"
  /\ last_call.raised
  /\ ret = Raised("IndexError")
  /\ tutor.assessment_questions = << >>
  /\ session.state.flow_state = "assessment"
  /\ session.state.conversation_history[
       Len(session.state.conversation_history)].role = "user"

\* A question of level "expert": the turn that answered the last question
\* raised KeyError with every call of the service answered.
C32_UnknownLevel ==
  /\ session # None
  /\ last_call.op = "handle_input"
  /\ last_call.flow_state = "assessment"
  /\ last_call.r1.kind = "json"
  /\ last_call.raised
  /\ ret = Raised("KeyError")
  /\ tutor.current_question_index = Len(tutor.assessment_questions)

\* The service returned an empty list of problems: the turn returned the
\* plain message and recorded it.
C32_EmptyProblemList ==
  /\ session # None
  /\ last_call.op = "handle_input"
  /\ ~last_call.raised
  /\ ret = Reply("try_again_in_a_moment")
  /\ tutor.practice_problems = << >>
  /\ session.state.flow_state = "practice"

\* The overview has no subtopics: teaching started on a subtopic made of
\* the subject.
C32_NoSubtopics ==
  /\ session # None
  /\ last_call.op = "handle_input"
  /\ ~last_call.raised
  /\ session.state.flow_state = "teaching"
  /\ "subtopics" \notin DOMAIN tutor.topic_overview
  /\ tutor.current_subtopic # None
  /\ tutor.current_subtopic.id = "main"

-----------------------------------------------------------------------------
(* The teaching phase: C33, C34 (under SpecTeaching).  The learner of       *)
(* SpecLesson, with the messages that tell the branches of _handle_teaching *)
(* apart.                                                                   *)

NextProblem == <<"n","e","x","t"," ","p","r","o","b","l","e","m">>

TeachingTurns(flow_state) ==
  CASE flow_state = "returning" ->
         { Typed(Continue, Json(1), Json(1)),
           Typed(Continue, Json(2), Unparseable) }
    [] flow_state = "assessment" ->
         { Typed(<<"4">>, Json(1), Json(1)), Typed(<<"y","e","s">>, Json(1), Json(1)) }
    [] flow_state = "teaching" ->
         { Typed(<<"p","r","a","c","t","i","c","e">>, Json(1), Json(1)),
           Typed(<<"Q","u","i","z"," ","m","e">>, Raises, Raises),
           Typed(NextProblem, Json(1), Json(1)),
           Typed(<<"n","e","x","t">>, Json(1), Json(1)),
           Typed(<<" ","M","o","v","e"," ","o","n"," ">>, Raises, Raises),
           Typed(<<"O","K">>, Json(1), Json(1)),
           Typed(<<"w","h","y">>, Json(1), Json(1)),
           Typed(<<"w","h","y">>, Raises, Raises) }
    [] flow_state = "practice" -> { Typed(<<"4">>, Json(1), Json(1)) }
    [] OTHER -> { Typed(Math, Json(1), Json(3)) }

NextTeaching ==
  \/ lesson_start_session
  \/ \E typed \in TeachingTurns(flow_state_of(session)) :
       lesson_handle_input(typed)
  \/ lesson_end_session

SpecTeaching == InitLesson /\ [][NextTeaching]_vars

\* A turn in phase teaching.
in_teaching ==
  /\ last_call'.op = "handle_input"
  /\ last_call'.flow_state = "teaching"

has_trigger(message, triggers) ==
  \E word \in triggers : str_in(word, strip(lower(message)))

\* The history with the learner's message recorded, of which the responder
\* is given the end.
history_with(message) ==
  record_exchange(session, "user", PyStr(message)).state.conversation_history

\* C33: in phase teaching a message that holds a practice trigger starts
\* practice and moves the phase to practice, also when it holds a next
\* trigger; otherwise a message that holds a next trigger advances the
\* subtopic; otherwise an affirmative token restarts teaching at the first
\* subtopic; only a message that matches none of these goes to the Socratic
\* responder, with at most the last 3 entries of the history as context,
\* and leaves the phase teaching.
C33_TeachingDispatch ==
  [][ in_teaching =>
        LET message == last_call'.user_input
            practice == has_trigger(message, PracticeWords)
            next == ~practice /\ has_trigger(message, NextWords)
            ready == ~practice /\ ~next /\ strip(lower(message)) \in ReadyWords
            history == history_with(message)
        IN  /\ practice =>
                 /\ session'.state.flow_state = "practice"
                 /\ tutor'.current_subtopic_index = tutor.current_subtopic_index
                 /\ ~last_call'.raised =>
                      /\ ret'.reply \in {"first_problem", "try_again_in_a_moment"}
                      /\ tutor'.current_problem_index = 0
                      /\ tutor'.hints_given = 0
            /\ next =>
                 /\ session'.state.flow_state = "teaching"
                 /\ tutor'.current_subtopic_index =
                      tutor.current_subtopic_index + 1
                 /\ ~last_call'.raised =>
                      ret'.reply \in {"next_subtopic", "subtopics_covered"}
            /\ ready =>
                 /\ session'.state.flow_state = "teaching"
                 /\ tutor'.current_subtopic_index = 0
                 /\ ~last_call'.raised => ret'.reply = "start_teaching"
            /\ (~practice /\ ~next /\ ~ready) =>
                 /\ session'.state.flow_state = "teaching"
                 /\ tutor' = tutor
                 /\ ~last_call'.raised =>
                      /\ ret'.reply = "socratic"
                      /\ Len(ret'.context) <= 3
                      /\ ret'.context =
                           SubSeq(history, max(1, Len(history) - 2),
                                  Len(history)) ]_vars

\* "next problem" holds a trigger of both kinds and started practice on the
\* subtopic the learner was at.
C33_Witness ==
  /\ session # None
  /\ last_call.op = "handle_input"
  /\ last_call.flow_state = "teaching"
  /\ last_call.user_input = NextProblem
  /\ ~last_call.raised
  /\ session.state.flow_state = "practice"
  /\ ret.reply = "first_problem"
  /\ tutor.current_subtopic_index = 0

\* The responder was given the last 3 of 5 entries.
C33_LastThree ==
  /\ session # None
  /\ last_call.op = "handle_input"
  /\ last_call.flow_state = "teaching"
  /\ ~last_call.raised
  /\ ret.reply = "socratic"
  /\ Len(ret.context) = 3
  /\ Len(session.state.conversation_history) = 6
  /\ ret.context = SubSeq(session.state.conversation_history, 3, 5)

\* "OK" took the learner back from the second subtopic to the first.
C33_Restarted ==
  /\ session # None
  /\ last_call.op = "handle_input"
  /\ last_call.flow_state = "teaching"
  /\ last_call.user_input = <<"O","K">>
  /\ ~last_call.raised
  /\ tutor.current_subtopic_index = 0
  /\ Len(session.state.conversation_history) = 6
  /\ session.state.conversation_history[4].content.reply = "next_subtopic"


\* The next trigger is handled and the learner is at the last subtopic.
next_at_last_subtopic ==
  /\ in_teaching
  /\ ~has_trigger(last_call'.user_input, PracticeWords)
  /\ has_trigger(last_call'.user_input, NextWords)
  /\ tutor.current_subtopic_index + 1 >=
       Len(dict_get(tutor.topic_overview, "subtopics", << >>))

\* C34: when a next trigger is handled in phase teaching at the last
\* subtopic, the completion summary is returned and the phase, the current
\* subtopic, the subtopic index and the lesson content are as before the
\* turn, however often the trigger is repeated.
C34_NextAtLastSubtopic ==
  [][ next_at_last_subtopic =>
        /\ ret' = Reply("subtopics_covered")
        /\ session'.state.flow_state = session.state.flow_state
        /\ tutor'.current_subtopic = tutor.current_subtopic
        /\ tutor'.current_subtopic_index = tutor.current_subtopic_index
        /\ tutor'.lesson_content = tutor.lesson_content ]_vars

\* The part that holds: everything but the subtopic index is as before,
\* with no call of the service.
C34_ButTheIndex ==
  [][ next_at_last_subtopic =>
        /\ ret' = Reply("subtopics_covered")
        /\ judge_calls' = 0
        /\ session'.state.flow_state = "teaching"
        /\ [tutor' EXCEPT !.current_subtopic_index = 0] =
             [tutor EXCEPT !.current_subtopic_index = 0]
        /\ profile' = profile
        /\ storage' = storage
        /\ cache' = cache ]_vars

\* The trigger was repeated at the last of two subtopics: the index is past
\* the list and grows with every turn.
C34_IndexGrows ==
  /\ session # None
  /\ last_call.op = "handle_input"
  /\ last_call.flow_state = "teaching"
  /\ ret = Reply("subtopics_covered")
  /\ Len(dict_get(tutor.topic_overview, "subtopics", << >>)) = 2
  /\ tutor.current_subtopic_index = 3
  /\ tutor.current_subtopic.id = "subtopic_2"

\* After the summary, "OK" took the learner back to the first subtopic.
C34_BackToFirst ==
  /\ session # None
  /\ last_call.op = "handle_input"
  /\ last_call.user_input = <<"O","K">>
  /\ ~last_call.raised
  /\ tutor.current_subtopic_index = 0
  /\ Len(session.state.conversation_history) >= 4
  /\ session.state.conversation_history[
       Len(session.state.conversation_history) - 2].content =
         Reply("subtopics_covered")

-----------------------------------------------------------------------------
(* The order of the phases: C35 (under SpecLesson) *)

\* returning and topic_selection come first, then assessment, teaching,
\* practice; any other phase has no place in the order.
phase_rank(flow_state) ==
  CASE flow_state \in {"returning", "topic_selection"} -> 1
    [] flow_state = "assessment" -> 2
    [] flow_state = "teaching" -> 3
    [] flow_state = "practice" -> 4
    [] OTHER -> 0

\* C35: within one session the phase is, after start_session, always one of
\* topic_selection, returning, assessment, teaching, practice; handle_input
\* never moves it backwards in the order (returning, topic_selection) <
\* assessment < teaching < practice; no learner message leaves phase
\* practice, and phase review is never entered.
C35_PhaseOrder ==
  [][ /\ session' # None => phase_rank(session'.state.flow_state) >= 1
      /\ last_call'.op = "start_session" =>
           phase_rank(session'.state.flow_state) = 1
      /\ (last_call'.op = "handle_input" /\ session # None) =>
           /\ phase_rank(session.state.flow_state) <=
                phase_rank(session'.state.flow_state)
           /\ session.state.flow_state = "practice" =>
                session'.state.flow_state = "practice"
           /\ session'.state.flow_state # "review" ]_vars

\* After the last problem a message was handled in phase practice and the
\* session is still in phase practice.
C35_Witness ==
  /\ session # None
  /\ last_call.op = "handle_input"
  /\ last_call.flow_state = "practice"
  /\ session.state.flow_state = "practice"
  /\ tutor.current_problem_index > Len(tutor.practice_problems)
  /\ Len(tutor.practice_problems) = 2

\* A session went through topic_selection and assessment to teaching.
C35_ToTeaching ==
  /\ session # None
  /\ last_call.op = "handle_input"
  /\ last_call.flow_state = "assessment"
  /\ session.state.flow_state = "teaching"
  /\ Len(session.state.assessment_answers) = 3
  /\ profile.total_sessions = 0

-----------------------------------------------------------------------------
(* The assessment index: C36 (under SpecLesson) *)

\* C36: in every state of a session in phase assessment the question index
\* is between 0 and the number of assessment questions, and the number of
\* recorded assessment answers equals the index, so that the i-th recorded
\* answer is the answer to the i-th generated question.
C36_AssessmentIndex ==
  (session # None /\ session.state.flow_state = "assessment") =>
    /\ 0 <= tutor.current_question_index
    /\ tutor.current_question_index <= Len(tutor.assessment_questions)
    /\ Len(session.state.assessment_answers) = tutor.current_question_index
    /\ \A i \in 1..Len(session.state.assessment_answers) :
         session.state.assessment_answers[i].question_id =
           tutor.assessment_questions[i].id

\* Two of three questions are answered, the second after a turn in which
\* the service failed.
C36_Witness ==
  /\ session # None
  /\ session.state.flow_state = "assessment"
  /\ Len(tutor.assessment_questions) = 3
  /\ tutor.current_question_index = 2
  /\ Len(session.state.assessment_answers) = 2
  /\ session.state.assessment_answers[2].question_id = "q2"
  /\ Len(session.state.conversation_history) = 7

\* The last answer raised KeyError: the session is still in phase
\* assessment, with every answer recorded and the index at the end.
C36_AfterKeyError ==
  /\ session # None
  /\ session.state.flow_state = "assessment"
  /\ last_call.op = "handle_input"
  /\ last_call.raised
  /\ ret = Raised("KeyError")
  /\ tutor.current_question_index = 3
  /\ Len(session.state.assessment_answers) = 3

-----------------------------------------------------------------------------
(* The learner of a session: C37 (under SpecTutor) *)

\* The tutor's profile and session are those of the learner, who has a file.
learner_is(learner_id) ==
  /\ profile'.learner_id = learner_id
  /\ session'.state.learner_id = learner_id
  /\ learner_id \in DOMAIN storage'
  /\ storage'[learner_id].learner_id = learner_id

\* C37: after every start_session(learner_id), a second call on the same
\* tutor for another learner included, the learner_id of the tutor's
\* profile and that of its session are learner_id, and storage holds a
\* profile record for learner_id.
C37_LearnerIdentity ==
  [][ last_call'.op = "start_session" =>
        learner_is(last_call'.learner_id) ]_vars

\* The part that holds: the same for a call on a tutor that holds no
\* profile, and for a call for a learner who has a file.
C37_FirstOrKnown ==
  [][ (last_call'.op = "start_session"
         /\ (profile = None \/ last_call'.existed)) =>
        learner_is(last_call'.learner_id) ]_vars

\* After start_session("bob"), start_session("alice") for a learner without
\* a file: the session is alice's, the profile is still bob's and alice has
\* no file.
C37_ProfileOfAnother ==
  /\ session # None
  /\ last_call.op = "start_session"
  /\ last_call.learner_id = "alice"
  /\ session.state.learner_id = "alice"
  /\ profile.learner_id = "bob"
  /\ "alice" \notin DOMAIN storage

\* What the learner then does is written to the other learner's file:
\* alice's topic is the last topic in bob's file.
C37_WrittenToAnother ==
  /\ session # None
  /\ session.state.learner_id = "alice"
  /\ last_call.op = "handle_input"
  /\ last_call.flow_state = "topic_selection"
  /\ "alice" \notin DOMAIN storage
  /\ storage["bob"].last_topic = PyStr(strip(last_call.user_input))

\* A second call for a learner who has a file loads that learner's profile.
C37_SecondKnown ==
  /\ session # None
  /\ calls_made = 2
  /\ last_call.op = "start_session"
  /\ last_call.learner_id = "bob"
  /\ last_call.existed
  /\ profile.learner_id = "bob"
  /\ "alice" \in DOMAIN storage

-----------------------------------------------------------------------------
(* The hints given: C38 (under SpecLesson) *)

\* C38: in every state of phase practice the number of hints given is
\* between 0 and the number of predefined hints of the current problem; it
\* is 0 again whenever the problem advances; and a hint request records no
\* attempt, changes no mastery score and leaves the current problem and the
\* problem index as they are.
C38_HintsGiven ==
  [][ /\ (session' # None /\ session'.state.flow_state = "practice") =>
           /\ 0 <= tutor'.hints_given
           /\ tutor'.hints_given <=
                (IF tutor'.current_problem = None THEN 0
                 ELSE Len(dict_get(tutor'.current_problem, "hints", << >>)))
      /\ (last_call'.op = "handle_input"
            /\ (\/ tutor'.current_problem_index # tutor.current_problem_index
                \/ tutor'.current_problem # tutor.current_problem)) =>
           tutor'.hints_given = 0
      /\ (in_practice /\ asks_hint(last_call'.user_input)) =>
           /\ session'.state.problems_attempted =
                session.state.problems_attempted
           /\ profile'.knowledge.topics_mastered =
                profile.knowledge.topics_mastered
           /\ tutor'.current_problem = tutor.current_problem
           /\ tutor'.current_problem_index = tutor.current_problem_index ]_vars

\* A hint was given on the first problem and a correct answer took the
\* learner to the second, with no hint given on it.
C38_Witness ==
  /\ session # None
  /\ session.state.flow_state = "practice"
  /\ last_call.op = "handle_input"
  /\ ~last_call.raised
  /\ ret.reply = "that_is_correct"
  /\ tutor.current_problem_index = 1
  /\ tutor.hints_given = 0
  /\ \E i \in DOMAIN session.state.conversation_history :
       session.state.conversation_history[i].content =
         [reply |-> "hint", hint |-> "hint 1"]

\* Every predefined hint of the problem was given, and one more was asked.
C38_AllGiven ==
  /\ session # None
  /\ session.state.flow_state = "practice"
  /\ last_call.op = "handle_input"
  /\ ret = Reply("all_hints_given")
  /\ tutor.hints_given = Len(tutor.current_problem.hints)
  /\ tutor.hints_given > 0

-----------------------------------------------------------------------------
(* The level of a diagnostic run: C39 (under Spec) *)

\* The run is complete: questions were answered and none is left.
run_complete == results # << >> /\ current_question = None

\* At least half of the results of the level are correct (none counts as
\* less than half).
accurate_at(level) ==
  LET at == { i \in DOMAIN results : dict_get(results[i], "level", "beginner") = level }
      correct == { i \in at : truthy(results[i], "correct") }
  IN  2 * Cardinality(correct) >= max(Cardinality(at), 1)

\* C39: for every complete run of the diagnostic assessment, when get_level
\* returns advanced the run has a beginner accuracy of at least 0.5 and an
\* intermediate accuracy of at least 0.5.
C39_AdvancedIsIntermediate ==
  (run_complete /\ get_level(results) = "advanced") =>
    /\ accurate_at("beginner")
    /\ accurate_at("intermediate")

\* The part that holds: a run classified advanced has an intermediate and
\* an advanced accuracy of at least 0.5.
C39_AdvancedRule ==
  (run_complete /\ get_level(results) = "advanced") =>
    /\ accurate_at("intermediate")
    /\ accurate_at("advanced")

\* A complete run with no beginner question answered correctly is
\* classified advanced.
C39_AdvancedWithoutBasics ==
  /\ run_complete
  /\ get_level(results) = "advanced"
  /\ \A i \in DOMAIN results :
       results[i].level = "beginner" => ~results[i].correct
  /\ \E i \in DOMAIN results : results[i].level = "beginner"

=============================================================================
